---- MODULE Spec2Model ----
(***************************************************************************)
(* Model of the use-params binary codec: the URL-safe base64 transcoder,   *)
(* the IEEE-754 decomposition (toFloat / fromFloat), the shared-exponent   *)
(* fixed-point quantizer (toFixedPoint / fromFixedPoint), the BitBuffer    *)
(* and the float / point Params built on them.                             *)
(*                                                                         *)
(* Number representations.  A double is its 64-bit IEEE-754 pattern, held  *)
(* as the set of the positions of its 1 bits (bit 63 = sign, bits 62..52 = *)
(* exponent field, bits 51..0 = mantissa).  A BigInt (always >= 0 in this  *)
(* code) is likewise the set of positions of its 1 bits.  A 32-bit integer *)
(* of a JavaScript bitwise operation is an Int in -2^31 .. 2^31-1, and the *)
(* operators <<, >>, & and | act on its two's-complement bits.             *)
(***************************************************************************)
EXTENDS Integers, Sequences, FiniteSets, TLC

VARIABLES
    buf, byteOffset, bitOffset, end,   \* the BitBuffer's fields
    scheme,                            \* the {expBits, mantBits} in use
    vals,                              \* the batch last given to encodeFixedPoints
    pre,                               \* the buffer's fields when the last call began
    thrown,                            \* whether the last call threw
    out,                               \* what decodeFixedPoints last returned
    encoded,                           \* whether encodeFixedPoints has written to this buffer
    start,                             \* the bit position at which that write began
    last,                              \* the name of the last BitBuffer call
    fx, fd, fy,                        \* toFloat / fromFloat: input, decomposition, result
    bytesIn, str, bytesOut,            \* base64Encode / base64Decode: input, text, result
    param, op, arg, ret, raised,       \* a Param, the last call on it, its argument and outcome
    caught,                            \* whether that call's catch clause ran
    origin,                            \* the value whose encoding that call decoded, if any
    num, big,                          \* the field last given to encodeInt / encodeBigInt
    got,                               \* what decodeInt / decodeBigInt last returned
    trimmed,                           \* what toBytes last returned
    high,                              \* the furthest bit position written so far
    lastWrite,                         \* the name of the last writing call
    hook,                              \* useUrlParams / useMultiUrlParams: kind, params, push
    window,                            \* whether window is defined (browser, not server)
    url, prevUrl,                      \* the location's parameters, now and before setValues
    updates,                           \* the entries of the object given to setValues
    calls,                             \* the history calls that setValues made
    threw,                             \* whether setValues threw
    paramMap, search, reparsed,        \* a Record<string, MultiEncoded>, its serialization, that parsed
    timeoutId, timers, issued,         \* debounce: its timeoutId, the pending timers, the timers set
    called, cancelled, fired,          \* the calls of debounced, whether cancel() came last, fn's runs
    location,                          \* window.location: its search and hash strings
    snapshotCache,                     \* getSnapshot's cache: per strategy, {raw, snapshot} if set
    snapshots,                         \* the number of objects that strategy.parse() has created
    previous,                          \* per strategy, the raw string and snapshot of its last call
    gotSnap,                           \* the last getSnapshot call: strategy, raw, result, the one before
    instances,                         \* the mounted hook instances: their arguments and refs
    rendered,                          \* the last render: instance, param, encoded, value returned
    lastSet                            \* the last setValue / setValues call: instance and argument

bufVars   == <<buf, byteOffset, bitOffset, end, scheme, vals, pre, thrown, out, encoded, start, last>>
floatVars == <<fx, fd, fy>>
b64Vars   == <<bytesIn, str, bytesOut>>
paramVars == <<param, op, arg, ret, raised, caught, origin>>
intVars   == <<num, big, got, trimmed, high, lastWrite>>
hookVars  == <<hook, window, url, prevUrl, updates, calls, threw>>
mapVars   == <<paramMap, search, reparsed>>
debVars   == <<timeoutId, timers, issued, called, cancelled, fired>>
snapVars  == <<location, snapshotCache, snapshots, previous, gotSnap>>
stateVars == <<instances, rendered, lastSet>>
reactVars == <<debVars, snapVars, stateVars>>
vars      == <<bufVars, floatVars, b64Vars, paramVars, intVars, hookVars, mapVars, reactVars>>

----------------------------------------------------------------------------
(* Integers and bits *)

pow2[k \in 0..30] == IF k = 0 THEN 1 ELSE 2 * pow2[k - 1]

Min(a, b) == IF a < b THEN a ELSE b

Max(a, b) == IF a > b THEN a ELSE b

RECURSIVE BitsValUpTo(_, _)
BitsValUpTo(s, i) ==
    IF i < 0 THEN 0
    ELSE (IF i \in s THEN pow2[i] ELSE 0) + BitsValUpTo(s, i - 1)

\* the number whose 1 bits are at the positions s (s within 0..30)
BitsVal(s) == IF s = {} THEN 0 ELSE BitsValUpTo(s, 30)

\* the positions of the 1 bits of n, 0 <= n < 2^31
NatBits(n) == {i \in 0..30 : (n \div pow2[i]) % 2 = 1}

\* two's-complement bits of a 32-bit integer
I32Bits(n) == IF n >= 0 THEN NatBits(n)
              ELSE NatBits((n + 2147483647) + 1) \cup {31}

\* the 32-bit integer with the two's-complement bits s
I32Val(s) == IF 31 \in s THEN (BitsVal(s \ {31}) - 1073741824) - 1073741824
             ELSE BitsVal(s)

RECURSIVE AndNat(_, _)
\* a & b for a, b >= 0
AndNat(a, b) == IF a = 0 \/ b = 0 THEN 0
                ELSE (a % 2) * (b % 2) + 2 * AndNat(a \div 2, b \div 2)

RECURSIVE OrNat(_, _)
\* a | b for a, b >= 0
OrNat(a, b) == IF a = 0 THEN b
               ELSE IF b = 0 THEN a
               ELSE Max(a % 2, b % 2) + 2 * OrNat(a \div 2, b \div 2)

\* JavaScript a << k on 32-bit integers (shift count taken modulo 32); the
\* first branch is the case in which no bit reaches bit 31
Shl(a, k) == IF a >= 0 /\ k % 32 < 31 /\ a < pow2[30 - (k % 32)]
             THEN a * pow2[k % 32]
             ELSE I32Val({i + (k % 32) : i \in I32Bits(a)} \cap (0..31))

\* JavaScript a >> k on 32-bit integers (sign-propagating)
Sar(a, k) == IF a >= 0
             THEN (IF k % 32 = 31 THEN 0 ELSE a \div pow2[k % 32])
             ELSE LET b == I32Bits(a)
                      s == k % 32
                  IN I32Val({i - s : i \in {j \in b : j >= s}} \cup ((31 - s)..31))

BitAnd(a, b) == IF a >= 0 /\ b >= 0 THEN AndNat(a, b)
                ELSE I32Val(I32Bits(a) \cap I32Bits(b))

BitOr(a, b) == IF a >= 0 /\ b >= 0 THEN OrNat(a, b)
               ELSE I32Val(I32Bits(a) \cup I32Bits(b))

\* (1 << k) - 1 as a 32-bit integer, 0 <= k <= 31
LowMask(k) == IF k <= 30 THEN pow2[k] - 1 ELSE 2147483647

\* BigInt operations, on sets of bit positions
BigShl(s, k) == IF k >= 0 THEN {i + k : i \in s}
                ELSE {i + k : i \in {j \in s : j + k >= 0}}

BigShr(s, k) == BigShl(s, 0 - k)

\* s + 1n
BigInc(s) == LET j == CHOOSE i \in 0..(Cardinality(s)) :
                          i \notin s /\ \A l \in 0..(i - 1) : l \in s
             IN (s \ (0..(j - 1))) \cup {j}

\* n.toString(2).length for n > 0
BitLength(s) == (CHOOSE i \in s : \A j \in s : j <= i) + 1

\* BigInt(n) for a number 0 <= n < 2^31, and Number(s) for a small BigInt
BigOfNat(n) == NatBits(n)

NatOfBig(s) == BitsVal(s)

----------------------------------------------------------------------------
(* src/float.ts: IEEE-754 decomposition *)

\* the double with the given sign, exponent field (biased) and mantissa bits
Dbl(neg, field, mant) ==
    (IF neg THEN {63} ELSE {}) \cup {i + 52 : i \in NatBits(field)} \cup mant

\* DataView.getUint16(0): the top 16 bits of the pattern
GetUint16(x) == BitsVal({i - 48 : i \in {j \in x : j >= 48}})

\* DataView.getUint8(0): the top 8 bits of the pattern
GetUint8(x) == BitsVal({i - 56 : i \in {j \in x : j >= 56}})

\* toFloat with the mantissa mask one bit short (0x7ffffffffffff)
toFloat_Mask51(x) ==
    [neg  |-> BitAnd(GetUint8(x), 128) # 0,
     exp  |-> Sar(BitAnd(GetUint16(x), 32752), 4) - 1023,
     mant |-> x \cap (0..50)]

toFloat(x) ==
    [neg  |-> BitAnd(GetUint8(x), 128) # 0,
     exp  |-> Sar(BitAnd(GetUint16(x), 32752), 4) - 1023,
     mant |-> x \cap (0..51)]

\* BigInt(exp + 1023) << 52n, as setBigUint64 stores it (modulo 2^64)
ExpField(exp) == {i + 52 : i \in I32Bits(exp + 1023)} \cap (0..63)

fromFloat(f) ==
    ((IF f.neg THEN {63} ELSE {}) \cup ExpField(f.exp) \cup f.mant) \cap (0..63)

----------------------------------------------------------------------------
(* src/float.ts: the fixed-point quantizer *)

\* opts.exp is <<>> when undefined, <<e>> otherwise; thrown marks the Error
toFixedPoint(f, mantBits, optExp) ==
    LET fExp == f.exp + 1
        exp  == IF optExp = <<>> THEN fExp ELSE optExp[1]
        downshiftBy == exp - fExp + 53 - mantBits
        roundUp == downshiftBy - 1 >= 0 /\ (downshiftBy - 1) \in f.mant
        shifted == BigShr(f.mant, downshiftBy)
        rounded == IF roundUp THEN BigInc(shifted) ELSE shifted
        markerAt == mantBits - 1 - (exp - fExp)
        marker == IF markerAt >= 0 THEN {markerAt} ELSE {}
    IN IF fExp > exp
       THEN [thrown |-> TRUE, neg |-> f.neg, exp |-> exp, mant |-> {}]
       ELSE [thrown |-> FALSE, neg |-> f.neg, exp |-> exp,
             mant |-> rounded \cup marker]

\* fromFixedPoint without the shift that undoes the exponent offset
fromFixedPoint_NoExpShift(f, mantBits) ==
    LET nonZeroBits == IF f.mant # {} THEN BitLength(f.mant) ELSE 0
        exp == f.exp - (mantBits - nonZeroBits) - 1
        masked == f.mant \cap (0..(nonZeroBits - 2))
    IN IF f.mant = {}
       THEN [neg |-> f.neg, exp |-> -1023, mant |-> {}]
       ELSE [neg |-> f.neg, exp |-> exp, mant |-> BigShl(masked, 52 - mantBits)]

fromFixedPoint(f, mantBits) ==
    LET nonZeroBits == IF f.mant # {} THEN BitLength(f.mant) ELSE 0
        exp == f.exp - (mantBits - nonZeroBits) - 1
        masked == f.mant \cap (0..(nonZeroBits - 2))
    IN IF f.mant = {}
       THEN [neg |-> f.neg, exp |-> -1023, mant |-> {}]
       ELSE [neg |-> f.neg, exp |-> exp,
             mant |-> BigShl(BigShl(masked, f.exp - exp), 52 - mantBits)]

----------------------------------------------------------------------------
(* src/float.ts: BitBuffer.  A buffer is the record of its fields          *)
(* [buf, byteOffset, bitOffset, end]; buf is 1-indexed here, so buf[i] of  *)
(* the code is b.buf[i + 1].                                               *)

\* new BitBuffer(numBytes)
NewBitBuffer(numBytes) ==
    [buf |-> [i \in 1..numBytes |-> 0], byteOffset |-> 0, bitOffset |-> 0, end |-> 0]

totalBitOffset(b) == b.byteOffset * 8 + b.bitOffset

seek(b, pos) ==
    [b EXCEPT !.byteOffset = Sar(pos, 3), !.bitOffset = BitAnd(pos, 7)]

\* buf[byteOffset] as the bitwise operators read it: undefined reads as 0
ByteAt(bytes, i) == IF i + 1 \in DOMAIN bytes THEN bytes[i + 1] ELSE 0

\* buf.push(0) when byteOffset >= buf.length
Grown(bytes, byteOff) == IF byteOff >= Len(bytes) THEN Append(bytes, 0) ELSE bytes

\* buf[i] = v: an index past the length extends the array, and the holes left
\* below it read as 0 under |, & and in new Uint8Array(...)
Store(bytes, i, v) ==
    [k \in 1..Max(Len(bytes), i + 1) |->
        IF k = i + 1 THEN v ELSE IF k <= Len(bytes) THEN bytes[k] ELSE 0]

\* the bookkeeping with end set to the cursor after every write
Written_EndFollowsCursor(b, w) ==
    [b EXCEPT !.buf = w.buf, !.byteOffset = w.byteOffset, !.bitOffset = w.bitOffset,
              !.end = w.byteOffset * 8 + w.bitOffset]

\* the end-of-write bookkeeping shared by encodeInt and encodeBigInt
Written(b, w) ==
    LET moved == [b EXCEPT !.buf = w.buf, !.byteOffset = w.byteOffset,
                           !.bitOffset = w.bitOffset]
    IN IF totalBitOffset(moved) > moved.end
       THEN [moved EXCEPT !.end = totalBitOffset(moved)]
       ELSE moved

RECURSIVE EncodeIntLoop(_, _, _, _, _)
\* the while loop of encodeInt; n is a 32-bit integer
EncodeIntLoop(bytes, byteOff, bitOff, n, numBits) ==
    IF numBits <= 0
    THEN [buf |-> bytes, byteOffset |-> byteOff, bitOffset |-> bitOff]
    ELSE LET grown == Grown(bytes, byteOff)
             remainingBitsInByte == 8 - bitOff
             bitsToWrite == Min(numBits, remainingBitsInByte)
             bitsLeftInByte == remainingBitsInByte - bitsToWrite
             bitsLeftToWrite == numBits - bitsToWrite
             mask == Shl(LowMask(bitsToWrite), bitsLeftToWrite)
             shiftedBitsToWrite == Sar(BitAnd(n, mask), bitsLeftToWrite)
             stored == BitOr(ByteAt(grown, byteOff), Shl(shiftedBitsToWrite, bitsLeftInByte))
             full == bitOff + bitsToWrite = 8
         IN EncodeIntLoop(Store(grown, byteOff, stored),
                          IF full THEN byteOff + 1 ELSE byteOff,
                          IF full THEN 0 ELSE bitOff + bitsToWrite,
                          BitAnd(n, LowMask(bitsLeftToWrite)),
                          numBits - bitsToWrite)

encodeInt(b, n, numBits) ==
    Written(b, EncodeIntLoop(b.buf, b.byteOffset, b.bitOffset, n, numBits))

RECURSIVE DecodeIntLoop(_, _, _, _, _)
\* the while loop of decodeInt; n is the 32-bit accumulator
DecodeIntLoop(bytes, byteOff, bitOff, n, numBits) ==
    IF numBits <= 0
    THEN [n |-> n, byteOffset |-> byteOff, bitOffset |-> bitOff]
    ELSE LET remainingBitsInByte == 8 - bitOff
             bitsToRead == Min(numBits, remainingBitsInByte)
             bitsLeftInByte == remainingBitsInByte - bitsToRead
             mask == Shl(LowMask(bitsToRead), bitsLeftInByte)
             bits == Sar(BitAnd(ByteAt(bytes, byteOff), mask), bitsLeftInByte)
             full == bitOff + bitsToRead = 8
         IN DecodeIntLoop(bytes,
                          IF full THEN byteOff + 1 ELSE byteOff,
                          IF full THEN 0 ELSE bitOff + bitsToRead,
                          BitOr(Shl(n, bitsToRead), bits),
                          numBits - bitsToRead)

\* returns the value read (n) and the buffer with its cursor moved (b)
decodeInt(b, numBits) ==
    LET r == DecodeIntLoop(b.buf, b.byteOffset, b.bitOffset, 0, numBits)
    IN [n |-> r.n,
        b |-> [b EXCEPT !.byteOffset = r.byteOffset, !.bitOffset = r.bitOffset]]

RECURSIVE EncodeBigIntLoop(_, _, _, _, _)
\* the while loop of encodeBigInt; n is a BigInt
EncodeBigIntLoop(bytes, byteOff, bitOff, n, numBits) ==
    IF numBits <= 0
    THEN [buf |-> bytes, byteOffset |-> byteOff, bitOffset |-> bitOff]
    ELSE LET grown == Grown(bytes, byteOff)
             remainingBitsInByte == 8 - bitOff
             bitsToWrite == Min(numBits, remainingBitsInByte)
             bitsLeftInByte == remainingBitsInByte - bitsToWrite
             bitsLeftToWrite == numBits - bitsToWrite
             mask == bitsLeftToWrite..(bitsLeftToWrite + bitsToWrite - 1)
             shiftedBitsToWrite == NatOfBig(BigShr(n \cap mask, bitsLeftToWrite))
             stored == BitOr(ByteAt(grown, byteOff), Shl(shiftedBitsToWrite, bitsLeftInByte))
             full == bitOff + bitsToWrite = 8
         IN EncodeBigIntLoop(Store(grown, byteOff, stored),
                             IF full THEN byteOff + 1 ELSE byteOff,
                             IF full THEN 0 ELSE bitOff + bitsToWrite,
                             n \cap (0..(bitsLeftToWrite - 1)),
                             numBits - bitsToWrite)

encodeBigInt(b, n, numBits) ==
    Written(b, EncodeBigIntLoop(b.buf, b.byteOffset, b.bitOffset, n, numBits))

RECURSIVE DecodeBigIntLoop(_, _, _, _, _)
\* the while loop of decodeBigInt; n is the BigInt accumulator
DecodeBigIntLoop(bytes, byteOff, bitOff, n, numBits) ==
    IF numBits <= 0
    THEN [n |-> n, byteOffset |-> byteOff, bitOffset |-> bitOff]
    ELSE LET remainingBitsInByte == 8 - bitOff
             bitsToRead == Min(numBits, remainingBitsInByte)
             bitsLeftInByte == remainingBitsInByte - bitsToRead
             mask == Shl(LowMask(bitsToRead), bitsLeftInByte)
             bits == BigOfNat(Sar(BitAnd(ByteAt(bytes, byteOff), mask), bitsLeftInByte))
             full == bitOff + bitsToRead = 8
         IN DecodeBigIntLoop(bytes,
                             IF full THEN byteOff + 1 ELSE byteOff,
                             IF full THEN 0 ELSE bitOff + bitsToRead,
                             BigShl(n, bitsToRead) \cup bits,
                             numBits - bitsToRead)

decodeBigInt(b, numBits) ==
    LET r == DecodeBigIntLoop(b.buf, b.byteOffset, b.bitOffset, {}, numBits)
    IN [n |-> r.n,
        b |-> [b EXCEPT !.byteOffset = r.byteOffset, !.bitOffset = r.bitOffset]]

\* new Uint8Array(buf.slice(0, Math.ceil(end / 8))): each element taken modulo 256
toBytes(b) ==
    LET numBytes == (b.end + 7) \div 8
    IN [i \in 1..Min(numBytes, Len(b.buf)) |-> BitAnd(b.buf[i], 255)]

fromBytes(bytes) ==
    [buf |-> bytes, byteOffset |-> 0, bitOffset |-> 0, end |-> Len(bytes) * 8]

RECURSIVE MaxOf(_)
\* Math.max(...s) for a non-empty sequence of numbers
MaxOf(s) == IF Len(s) = 1 THEN s[1] ELSE Max(s[1], MaxOf(Tail(s)))

RECURSIVE WriteFixedPoints(_, _, _)
\* fixedPoints.forEach(({neg, mant}) => { encodeInt(neg ? 1 : 0, 1); encodeBigInt(mant, mantBits) })
WriteFixedPoints(b, fixedPoints, mantBits) ==
    IF fixedPoints = <<>> THEN b
    ELSE LET fp == Head(fixedPoints)
             signed == encodeInt(b, IF fp.neg THEN 1 ELSE 0, 1)
         IN WriteFixedPoints(encodeBigInt(signed, fp.mant, mantBits),
                             Tail(fixedPoints), mantBits)

\* maxExp + (1 << expBits - 1) & (1 << expBits) - 1
ExpToWrite(maxExp, expBits) ==
    BitAnd(maxExp + Shl(1, expBits - 1), Shl(1, expBits) - 1)

\* encodeFixedPoints with the range check made after the exponent is written
encodeFixedPoints_LateCheck(b, xs, sch) ==
    LET floats == [i \in 1..Len(xs) |-> toFloat(xs[i])]
        maxExp == MaxOf([i \in 1..Len(xs) |-> floats[i].exp + 1])
        headed == encodeInt(b, ExpToWrite(maxExp, sch.expBits), sch.expBits)
        fixedPoints == [i \in 1..Len(xs) |-> toFixedPoint(floats[i], sch.mantBits, <<maxExp>>)]
    IN IF maxExp >= Shl(1, sch.expBits - 1) \/ \E i \in 1..Len(xs) : fixedPoints[i].thrown
       THEN [thrown |-> TRUE, b |-> headed]
       ELSE [thrown |-> FALSE, b |-> WriteFixedPoints(headed, fixedPoints, sch.mantBits)]

\* returns whether the call threw (thrown) and the buffer as the call left it (b)
encodeFixedPoints(b, xs, sch) ==
    LET floats == [i \in 1..Len(xs) |-> toFloat(xs[i])]
        maxExp == MaxOf([i \in 1..Len(xs) |-> floats[i].exp + 1])
        headed == encodeInt(b, ExpToWrite(maxExp, sch.expBits), sch.expBits)
        fixedPoints == [i \in 1..Len(xs) |-> toFixedPoint(floats[i], sch.mantBits, <<maxExp>>)]
    IN IF maxExp >= Shl(1, sch.expBits - 1)
       THEN [thrown |-> TRUE, b |-> b]
       ELSE IF \E i \in 1..Len(xs) : fixedPoints[i].thrown
       THEN [thrown |-> TRUE, b |-> headed]
       ELSE [thrown |-> FALSE, b |-> WriteFixedPoints(headed, fixedPoints, sch.mantBits)]

RECURSIVE ReadFixedPoints(_, _, _, _, _)
\* the for loop of decodeFixedPoints
ReadFixedPoints(b, count, exp, mantBits, result) ==
    IF count <= 0 THEN [vals |-> result, b |-> b]
    ELSE LET sign == decodeInt(b, 1)
             mant == decodeBigInt(sign.b, mantBits)
             fp == [neg |-> sign.n = 1, exp |-> exp, mant |-> mant.n]
             f == fromFixedPoint(fp, mantBits)
         IN ReadFixedPoints(mant.b, count - 1, exp, mantBits, Append(result, fromFloat(f)))

\* returns the decoded doubles (vals) and the buffer with its cursor moved (b)
decodeFixedPoints(b, count, sch) ==
    LET expRaw == decodeInt(b, sch.expBits)
        exp == expRaw.n - Shl(1, sch.expBits - 1)
    IN ReadFixedPoints(expRaw.b, count, exp, sch.mantBits, <<>>)

----------------------------------------------------------------------------
(* src/binary.ts: URL-safe base64.  A string is a sequence of one-character *)
(* strings.                                                                 *)

BASE64_CHARS ==
    << "A", "B", "C", "D", "E", "F", "G", "H", "I", "J", "K", "L", "M",
       "N", "O", "P", "Q", "R", "S", "T", "U", "V", "W", "X", "Y", "Z",
       "a", "b", "c", "d", "e", "f", "g", "h", "i", "j", "k", "l", "m",
       "n", "o", "p", "q", "r", "s", "t", "u", "v", "w", "x", "y", "z",
       "0", "1", "2", "3", "4", "5", "6", "7", "8", "9", "-", "_" >>

\* BASE64_LOOKUP.get(str[i]) ?? 0, i counted from 0 as in the code
BASE64_LOOKUP(s, i) ==
    IF i < Len(s) /\ \E k \in 1..64 : BASE64_CHARS[k] = s[i + 1]
    THEN (CHOOSE k \in 1..64 : BASE64_CHARS[k] = s[i + 1]) - 1
    ELSE 0

\* BASE64_CHARS[k]
Base64Char(k) == BASE64_CHARS[k + 1]

RECURSIVE Base64EncodeLoop(_, _, _)
\* the while loop of base64Encode, i the index the iteration starts at
Base64EncodeLoop(bytes, i, result) ==
    IF i >= Len(bytes) THEN result
    ELSE LET b0 == ByteAt(bytes, i)
             b1 == ByteAt(bytes, i + 1)
             b2 == ByteAt(bytes, i + 2)
             n  == BitOr(BitOr(Shl(b0, 16), Shl(b1, 8)), b2)
             two == result \o << Base64Char(BitAnd(Sar(n, 18), 63)),
                                 Base64Char(BitAnd(Sar(n, 12), 63)) >>
             three == IF (i + 3) - 2 < Len(bytes)
                      THEN Append(two, Base64Char(BitAnd(Sar(n, 6), 63)))
                      ELSE two
             four == IF (i + 3) - 1 < Len(bytes)
                     THEN Append(three, Base64Char(BitAnd(n, 63)))
                     ELSE three
         IN Base64EncodeLoop(bytes, i + 3, four)

\* a base64Encode that pads its result with "=" to a multiple of 4 characters
base64Encode_Padded(bytes) ==
    LET result == Base64EncodeLoop(bytes, 0, <<>>)
    IN result \o [k \in 1..((4 - (Len(result) % 4)) % 4) |-> "="]

base64Encode(bytes) == Base64EncodeLoop(bytes, 0, <<>>)

RECURSIVE StripPadding(_)
\* str.replace(/=+$/, "")
StripPadding(s) ==
    IF s # <<>> /\ s[Len(s)] = "=" THEN StripPadding(SubSeq(s, 1, Len(s) - 1)) ELSE s

RECURSIVE Base64DecodeLoop(_, _, _)
\* the for loop of base64Decode
Base64DecodeLoop(s, i, bytes) ==
    IF i >= Len(s) THEN bytes
    ELSE LET c0 == BASE64_LOOKUP(s, i)
             c1 == BASE64_LOOKUP(s, i + 1)
             c2 == IF i + 2 < Len(s) THEN BASE64_LOOKUP(s, i + 2) ELSE 0
             c3 == IF i + 3 < Len(s) THEN BASE64_LOOKUP(s, i + 3) ELSE 0
             n  == BitOr(BitOr(BitOr(Shl(c0, 18), Shl(c1, 12)), Shl(c2, 6)), c3)
             one == Append(bytes, BitAnd(Sar(n, 16), 255))
             two == IF i + 2 < Len(s) THEN Append(one, BitAnd(Sar(n, 8), 255)) ELSE one
             three == IF i + 3 < Len(s) THEN Append(two, BitAnd(n, 255)) ELSE two
         IN Base64DecodeLoop(s, i + 4, three)

RECURSIVE Base64DecodeLoop_WholeGroups(_, _, _)
\* the loop of a base64Decode that emits three bytes for every group of characters
Base64DecodeLoop_WholeGroups(s, i, bytes) ==
    IF i >= Len(s) THEN bytes
    ELSE LET c0 == BASE64_LOOKUP(s, i)
             c1 == BASE64_LOOKUP(s, i + 1)
             c2 == BASE64_LOOKUP(s, i + 2)
             c3 == BASE64_LOOKUP(s, i + 3)
             n  == BitOr(BitOr(BitOr(Shl(c0, 18), Shl(c1, 12)), Shl(c2, 6)), c3)
         IN Base64DecodeLoop_WholeGroups(s, i + 4,
                bytes \o <<BitAnd(Sar(n, 16), 255), BitAnd(Sar(n, 8), 255), BitAnd(n, 255)>>)

base64Decode_WholeGroups(s) == Base64DecodeLoop_WholeGroups(StripPadding(s), 0, <<>>)

\* a base64Decode that does not strip the trailing "="
base64Decode_KeepsPadding(s) == Base64DecodeLoop(s, 0, <<>>)

base64Decode(s) == Base64DecodeLoop(StripPadding(s), 0, <<>>)

toBase64(b) == base64Encode(toBytes(b))

fromBase64(s) == fromBytes(base64Decode(s))

----------------------------------------------------------------------------
(* src/binary.ts, src/float.ts: the Params.  The `string | undefined` that  *)
(* a Param encodes to and decodes from is a record [def, s], def = FALSE    *)
(* being undefined.  An encode returns [ret, raised] and a decode returns   *)
(* [ret, raised, caught]: raised says that an exception reached the caller, *)
(* caught that the catch clause of the decode ran.  A double given to or    *)
(* returned by a Param is [f64 |-> pattern], which tells it from the        *)
(* decimal numbers of the string encodings.                                 *)

Undefined == [def |-> FALSE, s |-> <<>>]

F64(x) == [f64 |-> x]

Str(s) == [def |-> TRUE, s |-> s]

\* encoded === void 0 || encoded === ""
Absent(encodedStr) == ~encodedStr.def \/ encodedStr.s = <<>>

Returned(v) == [ret |-> v, raised |-> FALSE, caught |-> FALSE]

Caught(v) == [ret |-> v, raised |-> FALSE, caught |-> TRUE]

Raised == [ret |-> <<>>, raised |-> TRUE, caught |-> FALSE]

IsNaN(x) == (52..62) \subseteq x /\ x \cap (0..51) # {}

\* a === b on doubles: NaN equals nothing, +0 equals -0
StrictEq(a, b) ==
    /\ ~IsNaN(a) /\ ~IsNaN(b)
    /\ a = b \/ (a \ {63} = {} /\ b \ {63} = {})

\* floatToBytes writing the bytes little-endian (setFloat64(0, value, true))
floatToBytes_LittleEndian(value) ==
    [k \in 1..8 |-> BitsVal({i - 8 * (k - 1) : i \in {j \in value : j \div 8 = k - 1}})]

\* DataView.setFloat64(0, value, false): the pattern's 8 bytes, big-endian
floatToBytes(value) ==
    [k \in 1..8 |-> BitsVal({i - 8 * (8 - k) : i \in {j \in value : j \div 8 = 8 - k}})]

\* DataView.getFloat64(0, false): a RangeError when fewer than 8 bytes are there
bytesToFloat(bytes) ==
    IF Len(bytes) < 8
    THEN [thrown |-> TRUE, v |-> {}]
    ELSE [thrown |-> FALSE,
          v |-> UNION {{i + 8 * (8 - k) : i \in NatBits(bytes[k])} : k \in 1..8}]

createLosslessBase64Param_encode(defaultValue, value) ==
    IF StrictEq(value.f64, defaultValue.f64)
    THEN Returned(Undefined)
    ELSE Returned(Str(base64Encode(floatToBytes(value.f64))))

\* the lossless decode with its try / catch removed
createLosslessBase64Param_decode_NoCatch(defaultValue, encodedStr) ==
    IF Absent(encodedStr)
    THEN Returned(defaultValue)
    ELSE LET r == bytesToFloat(base64Decode(encodedStr.s))
         IN IF r.thrown THEN Raised ELSE Returned(F64(r.v))

createLosslessBase64Param_decode(defaultValue, encodedStr) ==
    IF Absent(encodedStr)
    THEN Returned(defaultValue)
    ELSE LET r == bytesToFloat(base64Decode(encodedStr.s))
         IN IF r.thrown THEN Caught(defaultValue) ELSE Returned(F64(r.v))

createLossyBase64Param_encode(defaultValue, sch, value) ==
    IF StrictEq(value.f64, defaultValue.f64)
    THEN Returned(Undefined)
    ELSE LET r == encodeFixedPoints(NewBitBuffer(0), <<value.f64>>, sch)
         IN IF r.thrown THEN Raised ELSE Returned(Str(toBase64(r.b)))

\* the lossy decode without its test for the empty string; base64Decode(undefined)
\* throws inside the try
createLossyBase64Param_decode_NoEmptyCheck(defaultValue, sch, encodedStr) ==
    IF ~encodedStr.def
    THEN Caught(defaultValue)
    ELSE Returned(F64(decodeFixedPoints(fromBase64(encodedStr.s), 1, sch).vals[1]))

\* nothing called inside the try throws: reads past the stored bytes give 0
createLossyBase64Param_decode(defaultValue, sch, encodedStr) ==
    IF Absent(encodedStr)
    THEN Returned(defaultValue)
    ELSE Returned(F64(decodeFixedPoints(fromBase64(encodedStr.s), 1, sch).vals[1]))

----------------------------------------------------------------------------
(* The string encodings.  The numbers handled there are the doubles nearest *)
(* to a decimal with at most two fractional digits, held as [nan, neg, c]:  *)
(* the double nearest to c / 100, negated when neg (so -0 is kept apart     *)
(* from 0).  For such doubles the shortest decimal that toString prints is  *)
(* c / 100 itself, parseFloat of that decimal gives the double back, and    *)
(* Math.round(value * 10^d) is exact for d = 0 and d = 2.  The strings      *)
(* parsed carry no exponent part, no "Infinity" and at most two fractional  *)
(* digits.                                                                  *)

DecDigits == <<"0", "1", "2", "3", "4", "5", "6", "7", "8", "9">>

IsDigit(ch) == \E i \in 1..10 : DecDigits[i] = ch

DigitVal(ch) == (CHOOSE i \in 1..10 : DecDigits[i] = ch) - 1

NaN == [nan |-> TRUE, neg |-> FALSE, c |-> 0]

Dec(neg, c) == [nan |-> FALSE, neg |-> neg, c |-> c]

\* a === b on these numbers
DecStrictEq(a, b) ==
    /\ ~a.nan /\ ~b.nan
    /\ a.c = b.c
    /\ a.c = 0 \/ a.neg = b.neg

\* a >= 0
DecNonNegative(a) == ~a.nan /\ (a.c = 0 \/ ~a.neg)

RECURSIVE TrimStart(_)
\* the leading white space that parseFloat skips
TrimStart(s) == IF s # <<>> /\ s[1] = " " THEN TrimStart(Tail(s)) ELSE s

RECURSIVE DigitRun(_)
\* the number of decimal digits s begins with
DigitRun(s) == IF s # <<>> /\ IsDigit(s[1]) THEN 1 + DigitRun(Tail(s)) ELSE 0

RECURSIVE DigitsVal(_, _)
DigitsVal(s, acc) ==
    IF s = <<>> THEN acc ELSE DigitsVal(Tail(s), 10 * acc + DigitVal(s[1]))

\* parseFloat: the longest prefix, after white space, that is a decimal literal
\* [+-] digits [. digits] or [+-] . digits; NaN when there is none
parseFloat(s) ==
    LET t == TrimStart(s)
        signed == t # <<>> /\ t[1] \in {"-", "+"}
        u == IF signed THEN Tail(t) ELSE t
        ni == DigitRun(u)
        rest == SubSeq(u, ni + 1, Len(u))
        fracAll == IF rest # <<>> /\ rest[1] = "." THEN Tail(rest) ELSE <<>>
        nf == DigitRun(fracAll)
        frac == SubSeq(fracAll, 1, Min(nf, 2))
        hundredths == IF Len(frac) = 1 THEN 10 * DigitsVal(frac, 0) ELSE DigitsVal(frac, 0)
    IN IF ni = 0 /\ nf = 0
       THEN NaN
       ELSE Dec(signed /\ t[1] = "-", 100 * DigitsVal(SubSeq(u, 1, ni), 0) + hundredths)

RECURSIVE IntToString(_)
IntToString(n) ==
    IF n < 10 THEN <<DecDigits[n + 1]>>
    ELSE Append(IntToString(n \div 10), DecDigits[(n % 10) + 1])

\* Number.prototype.toString: the shortest decimal, "0" for -0, "NaN" for NaN
toString(v) ==
    IF v.nan THEN <<"N", "a", "N">> ELSE
    LET sign == IF v.neg /\ v.c > 0 THEN <<"-">> ELSE <<>>
        whole == IntToString(v.c \div 100)
        frac == IF v.c % 100 = 0 THEN <<>>
                ELSE IF v.c % 10 = 0 THEN <<".", DecDigits[((v.c % 100) \div 10) + 1]>>
                ELSE <<".", DecDigits[((v.c % 100) \div 10) + 1], DecDigits[(v.c % 10) + 1]>>
    IN sign \o whole \o frac

\* Math.pow(10, decimals)
Pow10[decimals \in 0..2] == IF decimals = 0 THEN 1 ELSE 10 * Pow10[decimals - 1]

\* Math.round(value * multiplier) / multiplier, multiplier = 10^decimals, decimals
\* in 0..2: Math.round rounds halves towards +Infinity and keeps the sign of a
\* negative argument that rounds to zero
RoundTo(value, decimals) ==
    LET unit == 100 \div Pow10[decimals]
        signed == IF value.neg THEN 0 - value.c ELSE value.c
        hundredths == ((2 * signed + unit) \div (2 * unit)) * unit
    IN Dec(hundredths < 0 \/ (hundredths = 0 /\ value.neg),
           IF hundredths < 0 THEN 0 - hundredths ELSE hundredths)

\* Number.prototype.toFixed(decimals) of a multiple of 10^-decimals, decimals in 0..2
toFixed(v, decimals) ==
    LET sign == IF v.neg /\ v.c > 0 THEN <<"-">> ELSE <<>>
        whole == IntToString(v.c \div 100)
        digits == <<DecDigits[((v.c % 100) \div 10) + 1], DecDigits[(v.c % 10) + 1]>>
    IN sign \o whole \o
          (IF decimals = 0 THEN <<>> ELSE <<".">> \o SubSeq(digits, 1, decimals))

createFullStringParam_encode(defaultValue, value) ==
    IF DecStrictEq(value, defaultValue)
    THEN Returned(Undefined)
    ELSE Returned(Str(toString(value)))

\* no try / catch here: parseFloat does not throw
createFullStringParam_decode(defaultValue, encodedStr) ==
    IF Absent(encodedStr)
    THEN Returned(defaultValue)
    ELSE LET parsed == parseFloat(encodedStr.s)
         IN IF parsed.nan THEN Returned(defaultValue) ELSE Returned(parsed)

createTruncatedStringParam_encode(defaultValue, decimals, value) ==
    IF DecStrictEq(value, defaultValue)
    THEN Returned(Undefined)
    ELSE Returned(Str(toFixed(RoundTo(value, decimals), decimals)))

createTruncatedStringParam_decode(defaultValue, decimals, encodedStr) ==
    IF Absent(encodedStr)
    THEN Returned(defaultValue)
    ELSE LET parsed == parseFloat(encodedStr.s)
         IN IF parsed.nan THEN Returned(defaultValue) ELSE Returned(parsed)

----------------------------------------------------------------------------
(* floatParam, pointParam, binaryParam.  A Param is the record of the       *)
(* options it was made with: type ("float", "point", "binary"), default,    *)
(* encoding ("base64", "string"), scheme (<<>> when neither exp / mant nor  *)
(* precision is given, <<{expBits, mantBits}>> otherwise) and decimals      *)
(* (<<>> when not given).  A point is [null, x, y], null = TRUE being the   *)
(* null point; a binaryParam value is [null, bytes].                        *)

DEFAULT_EXP_BITS == 5

\* resolvePrecision of undefined or of a {expBits, mantBits} object
resolvePrecision(precision) ==
    IF precision = <<>> THEN [expBits |-> DEFAULT_EXP_BITS, mantBits |-> 22]
    ELSE precision[1]

\* the dispatch of floatParam on its options
floatParam_encode(opts, value) ==
    IF opts.encoding = "base64"
    THEN IF opts.scheme # <<>>
         THEN createLossyBase64Param_encode(opts.default, opts.scheme[1], value)
         ELSE createLosslessBase64Param_encode(opts.default, value)
    ELSE IF opts.decimals # <<>>
         THEN createTruncatedStringParam_encode(opts.default, opts.decimals[1], value)
         ELSE createFullStringParam_encode(opts.default, value)

floatParam_decode(opts, encodedStr) ==
    IF opts.encoding = "base64"
    THEN IF opts.scheme # <<>>
         THEN createLossyBase64Param_decode(opts.default, opts.scheme[1], encodedStr)
         ELSE createLosslessBase64Param_decode(opts.default, encodedStr)
    ELSE IF opts.decimals # <<>>
         THEN createTruncatedStringParam_decode(opts.default, opts.decimals[1], encodedStr)
         ELSE createFullStringParam_decode(opts.default, encodedStr)

Point(x, y) == [null |-> FALSE, x |-> x, y |-> y]

\* point.x === defaultPoint.x && point.y === defaultPoint.y, in either number form
SamePoint(encoding, a, b) ==
    IF encoding = "string"
    THEN DecStrictEq(a.x, b.x) /\ DecStrictEq(a.y, b.y)
    ELSE StrictEq(a.x.f64, b.x.f64) /\ StrictEq(a.y.f64, b.y.f64)

pointParam_encode(opts, point) ==
    LET decimals == IF opts.decimals = <<>> THEN 2 ELSE opts.decimals[1]
    IN IF point.null THEN Returned(Undefined)
       ELSE IF ~opts.default.null /\ SamePoint(opts.encoding, point, opts.default)
       THEN Returned(Undefined)
       ELSE IF opts.encoding = "string"
       THEN LET xTrunc == RoundTo(point.x, decimals)
                yTrunc == RoundTo(point.y, decimals)
                delimiter == IF DecNonNegative(yTrunc) THEN <<" ">> ELSE <<>>
            IN Returned(Str(toFixed(xTrunc, decimals) \o delimiter \o toFixed(yTrunc, decimals)))
       ELSE LET r == encodeFixedPoints(NewBitBuffer(0), <<point.x.f64, point.y.f64>>,
                                       resolvePrecision(opts.scheme))
            IN IF r.thrown THEN Raised ELSE Returned(Str(toBase64(r.b)))

\* encoded.indexOf(ch, from), positions counted from 0; -1 when not found
IndexOf(s, ch, from) ==
    IF \E i \in (from + 1)..Len(s) : s[i] = ch
    THEN (CHOOSE i \in (from + 1)..Len(s) : s[i] = ch /\ \A j \in (from + 1)..(i - 1) : s[j] # ch) - 1
    ELSE -1

\* the number of occurrences of ch: encoded.split(ch).length - 1
Occurrences(s, ch) == Cardinality({i \in 1..Len(s) : s[i] = ch})

\* nothing called inside the try throws
pointParam_decode(opts, encodedStr) ==
    IF Absent(encodedStr) THEN Returned(opts.default)
    ELSE IF opts.encoding = "string"
    THEN LET s == encodedStr.s
             spaceIdx == IndexOf(s, " ", 0)
             minusIdx == IndexOf(s, "-", IF s[1] = "-" THEN 1 ELSE 0)
             cut == IF spaceIdx # -1 THEN spaceIdx ELSE minusIdx
             x == parseFloat(SubSeq(s, 1, cut))
             y == parseFloat(SubSeq(s, (IF spaceIdx # -1 THEN cut + 2 ELSE cut + 1), Len(s)))
         IN IF spaceIdx # -1 /\ Occurrences(s, " ") # 1 THEN Returned(opts.default)
            ELSE IF spaceIdx = -1 /\ minusIdx = -1 THEN Returned(opts.default)
            ELSE IF x.nan \/ y.nan THEN Returned(opts.default)
            ELSE Returned(Point(x, y))
    ELSE LET r == decodeFixedPoints(fromBase64(encodedStr.s), 2, resolvePrecision(opts.scheme))
         IN Returned(Point(F64(r.vals[1]), F64(r.vals[2])))

NullBytes == [null |-> TRUE, bytes |-> <<>>]

\* binaryParam over byte arrays themselves: toBytes is the identity
binaryParam_encode(value) ==
    IF value.null THEN Returned(Undefined)
    ELSE IF Len(value.bytes) = 0 THEN Returned(Undefined)
    ELSE Returned(Str(base64Encode(value.bytes)))

\* the caller's fromBytes either returns a value or throws (fromBytesThrows)
binaryParam_decode(fromBytesThrows, encodedStr) ==
    IF Absent(encodedStr) THEN Returned(NullBytes)
    ELSE IF fromBytesThrows THEN Caught(NullBytes)
    ELSE Returned([null |-> FALSE, bytes |-> base64Decode(encodedStr.s)])

\* param.encode(value) and param.decode(encoded) for a Param of any type
ParamEncode(p, value) ==
    IF p.type = "float" THEN floatParam_encode(p, value)
    ELSE IF p.type = "point" THEN pointParam_encode(p, value)
    ELSE binaryParam_encode(value)

ParamDecode(p, fromBytesThrows, encodedStr) ==
    IF p.type = "float" THEN floatParam_decode(p, encodedStr)
    ELSE IF p.type = "point" THEN pointParam_decode(p, encodedStr)
    ELSE binaryParam_decode(fromBytesThrows, encodedStr)

----------------------------------------------------------------------------
(* src/multiParams.ts: the multi-value Params.  An array is a sequence; a    *)
(* string in it is [str |-> characters], a number is one of the decimals     *)
(* [nan, neg, c] of the string encodings (an integer has c a multiple of     *)
(* 100).  encode returns the array of strings to put under the key, decode   *)
(* takes the array of strings found there.                                   *)

MStr(s) == [str |-> s]

\* v === w on two elements of the same kind
ElemStrictEq(v, w) == IF "nan" \in DOMAIN v THEN DecStrictEq(v, w) ELSE v = w

arraysEqual(a, b) ==
    Len(a) = Len(b) /\ \A i \in 1..Len(a) : ElemStrictEq(a[i], b[i])

\* parseInt(s, 10): the longest prefix, after white space, of the form [+-] digits;
\* NaN when there is none
parseInt(s) ==
    LET t == TrimStart(s)
        signed == t # <<>> /\ t[1] \in {"-", "+"}
        u == IF signed THEN Tail(t) ELSE t
        ni == DigitRun(u)
    IN IF ni = 0 THEN NaN
       ELSE Dec(signed /\ t[1] = "-", 100 * DigitsVal(SubSeq(u, 1, ni), 0))

multiStringParam_encode(init, values) ==
    IF Len(values) = 0 /\ Len(init) = 0 THEN <<>>
    ELSE IF arraysEqual(values, init) THEN <<>>
    ELSE values

\* a multiStringParam decode that returns what it is given, the empty array too
multiStringParam_decode_NoEmptyCheck(init, encodedArr) == encodedArr

multiStringParam_decode(init, encodedArr) ==
    IF Len(encodedArr) = 0 THEN init ELSE encodedArr

multiIntParam_encode(init, values) ==
    IF Len(values) = 0 /\ Len(init) = 0 THEN <<>>
    ELSE IF arraysEqual(values, init) THEN <<>>
    ELSE [i \in 1..Len(values) |-> MStr(toString(values[i]))]

multiIntParam_decode(init, encodedArr) ==
    IF Len(encodedArr) = 0 THEN init
    ELSE [i \in 1..Len(encodedArr) |-> parseInt(encodedArr[i].str)]

multiFloatParam_encode(init, values) ==
    IF Len(values) = 0 /\ Len(init) = 0 THEN <<>>
    ELSE IF arraysEqual(values, init) THEN <<>>
    ELSE [i \in 1..Len(values) |-> MStr(toString(values[i]))]

multiFloatParam_decode(init, encodedArr) ==
    IF Len(encodedArr) = 0 THEN init
    ELSE [i \in 1..Len(encodedArr) |-> parseFloat(encodedArr[i].str)]

\* the dispatch on the kind of multi-value Param
MultiEncodeOf(p, values) ==
    CASE p.type = "multiString" -> multiStringParam_encode(p.init, values)
      [] p.type = "multiInt" -> multiIntParam_encode(p.init, values)
      [] p.type = "multiFloat" -> multiFloatParam_encode(p.init, values)

MultiDecodeOf(p, encodedArr) ==
    CASE p.type = "multiString" -> multiStringParam_decode(p.init, encodedArr)
      [] p.type = "multiInt" -> multiIntParam_decode(p.init, encodedArr)
      [] p.type = "multiFloat" -> multiFloatParam_decode(p.init, encodedArr)

----------------------------------------------------------------------------
(* src/core.ts, src/useUrlParam.ts: the location's parameters and the       *)
(* setValues of useUrlParams / useMultiUrlParams.  The query (or hash)      *)
(* string is the sequence of its [key, value] entries, as URLSearchParams   *)
(* holds them; a valueless entry ("key" without "=") has the value ''.      *)
(* Keys and values are plain letters and digits, which percent-encoding     *)
(* leaves as they are.  A Record<string, MultiEncoded> is the sequence of   *)
(* its [key, values] properties in insertion order.                         *)

\* searchParams.getAll(key)
getAll(q, key) ==
    LET Test(e) == e.key = key
        hits == SelectSeq(q, Test)
    IN [i \in 1..Len(hits) |-> hits[i].value]

RECURSIVE KeysFrom(_, _)
\* new Set(searchParams.keys()): the distinct keys in order of first appearance
KeysFrom(q, seen) ==
    IF q = <<>> THEN seen
    ELSE KeysFrom(Tail(q),
                  IF \E i \in 1..Len(seen) : seen[i] = q[1].key
                  THEN seen ELSE Append(seen, q[1].key))

parseMultiParams(q) ==
    LET keys == KeysFrom(q, <<>>)
    IN [i \in 1..Len(keys) |-> [key |-> keys[i], values |-> getAll(q, keys[i])]]

RECURSIVE AppendedEntries(_)
\* the searchParams.append(key, value) calls of serializeMultiParams: '' is skipped
AppendedEntries(obj) ==
    IF obj = <<>> THEN <<>>
    ELSE LET Filled(v) == v # <<>>
             vs == SelectSeq(obj[1].values, Filled)
         IN [i \in 1..Len(vs) |-> [key |-> obj[1].key, value |-> vs[i]]]
               \o AppendedEntries(Tail(obj))

\* the valueless part: once every key whose values include ''; the key '' gives an
\* empty segment between the "&", which holds no entry
ValuelessEntries(obj) ==
    LET HasEmpty(e) == e.key # "" /\ \E i \in 1..Len(e.values) : e.values[i] = <<>>
        ks == SelectSeq(obj, HasEmpty)
    IN [i \in 1..Len(ks) |-> [key |-> ks[i].key, value |-> <<>>]]

\* the entries of the string that serializeMultiParams returns
serializeMultiParams(obj) == AppendedEntries(obj) \o ValuelessEntries(obj)

\* delete currentParams[key]
ObjDelete(obj, key) ==
    LET Other(e) == e.key # key IN SelectSeq(obj, Other)

\* currentParams[key] = values
ObjSet(obj, key, values) ==
    IF \E i \in 1..Len(obj) : obj[i].key = key
    THEN [i \in 1..Len(obj) |-> IF obj[i].key = key
                                THEN [key |-> key, values |-> values] ELSE obj[i]]
    ELSE Append(obj, [key |-> key, values |-> values])

\* urlParams[key] ?? []: the value under a key, [] when there is no such property
ValuesUnder(obj, key) ==
    IF \E i \in 1..Len(obj) : obj[i].key = key
    THEN (CHOOSE e \in {obj[i] : i \in 1..Len(obj)} : e.key = key).values
    ELSE <<>>

\* Object.keys(obj)
KeysOf(obj) == {obj[i].key : i \in 1..Len(obj)}

\* names that params[key] finds on Object.prototype when params does not declare them
ObjectPrototypeKeys == {"constructor"}

RECURSIVE SetValuesLoop(_, _, _)
\* the for loop of setValues over Object.entries(updates); params[key] of an
\* undeclared key is undefined (skipped) or an inherited function, on which
\* param.encode(value) is a TypeError
SetValuesLoop(h, currentParams, entries) ==
    IF entries = <<>> THEN [threw |-> FALSE, params |-> currentParams]
    ELSE LET key == entries[1].key
             value == entries[1].value
         IN IF key \notin DOMAIN h.params
            THEN IF key \in ObjectPrototypeKeys
                 THEN [threw |-> TRUE, params |-> currentParams]
                 ELSE SetValuesLoop(h, currentParams, Tail(entries))
            ELSE IF h.kind = "single"
            THEN LET r == ParamEncode(h.params[key], value)
                 IN IF r.raised THEN [threw |-> TRUE, params |-> currentParams]
                    ELSE IF ~r.ret.def
                    THEN SetValuesLoop(h, ObjDelete(currentParams, key), Tail(entries))
                    ELSE SetValuesLoop(h, ObjSet(currentParams, key, <<r.ret.s>>),
                                       Tail(entries))
            ELSE LET e == MultiEncodeOf(h.params[key], value)
                 IN IF Len(e) = 0
                    THEN SetValuesLoop(h, ObjDelete(currentParams, key), Tail(entries))
                    ELSE SetValuesLoop(h, ObjSet(currentParams, key,
                                                 [i \in 1..Len(e) |-> e[i].str]),
                                       Tail(entries))

----------------------------------------------------------------------------
(* debounce(fn, ms): the closure's timeoutId with the timers that           *)
(* setTimeout has pending for it.  A timer is [id, args]; ids are positive  *)
(* and never reused, null is 0.                                             *)

\* debounce(fn, ms) before any call
NewDebounce == [timeoutId |-> 0, timers |-> {}, issued |-> 0]

\* clearTimeout(id)
clearTimeout(pending, id) == {t \in pending : t.id # id}

\* the function debounce returns, without its clearTimeout
debounced_NoClear(d, args) ==
    [timeoutId |-> d.issued + 1,
     timers |-> d.timers \cup {[id |-> d.issued + 1, args |-> args]},
     issued |-> d.issued + 1]

\* debounced(...args): if (timeoutId) clearTimeout(timeoutId); timeoutId = setTimeout(...)
debounced(d, args) ==
    LET pending == IF d.timeoutId # 0 THEN clearTimeout(d.timers, d.timeoutId) ELSE d.timers
    IN [timeoutId |-> d.issued + 1,
        timers |-> pending \cup {[id |-> d.issued + 1, args |-> args]},
        issued |-> d.issued + 1]

\* debounced.cancel()
cancel(d) ==
    IF d.timeoutId # 0
    THEN [d EXCEPT !.timers = clearTimeout(d.timers, d.timeoutId), !.timeoutId = 0]
    ELSE d

\* the timer's callback up to its call of fn: the timer is spent and timeoutId = null
expire(d, timer) == [d EXCEPT !.timers = d.timers \ {timer}, !.timeoutId = 0]

----------------------------------------------------------------------------
(* src/useUrlParam.ts: getSnapshot and its cache.  window.location.search   *)
(* and window.location.hash are [mark, entries]: the leading "?" or "#"     *)
(* ("" for the empty string) and the entries of the rest.  A snapshot is    *)
(* [ref, value]: the identity of the object that parse() created, and its   *)
(* content.                                                                 *)

Strategies == {"query", "hash"}

\* strategy.getRaw()
getRaw(strategy, loc) == IF strategy = "query" THEN loc.search ELSE loc.hash

\* strategy.parse(): new URLSearchParams(string) drops the leading "?", hashStrategy
\* slices the leading "#" off
StrategyParse(strategy, loc) == parseMultiParams(getRaw(strategy, loc).entries)

\* getSnapshot with one cache entry for all strategies
getSnapshot_SharedCache(strategy, cache, loc, count) ==
    LET raw == getRaw(strategy, loc)
        cached == cache["query"]
    IN IF cached # <<>> /\ cached[1].raw = raw
       THEN [snapshot |-> cached[1].snapshot, cache |-> cache, count |-> count]
       ELSE LET snapshot == [ref |-> count + 1, value |-> StrategyParse(strategy, loc)]
            IN [snapshot |-> snapshot,
                cache |-> [cache EXCEPT !["query"] = <<[raw |-> raw, snapshot |-> snapshot]>>],
                count |-> count + 1]

\* getSnapshot(strategy): the snapshot returned, the cache and the object count after
getSnapshot(strategy, cache, loc, count) ==
    LET raw == getRaw(strategy, loc)
        cached == cache[strategy]
    IN IF cached # <<>> /\ cached[1].raw = raw
       THEN [snapshot |-> cached[1].snapshot, cache |-> cache, count |-> count]
       ELSE LET snapshot == [ref |-> count + 1, value |-> StrategyParse(strategy, loc)]
            IN [snapshot |-> snapshot,
                cache |-> [cache EXCEPT ![strategy] = <<[raw |-> raw, snapshot |-> snapshot]>>],
                count |-> count + 1]

----------------------------------------------------------------------------
(* The hooks.  A hook instance is the record of its arguments (key, push,   *)
(* debounce) and of its refs: paramRef ([id, p]: the identity of the param  *)
(* object and the options it was made with), cacheRef, lastWrittenRef and   *)
(* debouncedWriteRef (<<>> is null), with the value its last render         *)
(* returned.  useSyncExternalStore hands a render getSnapshot(strategy),    *)
(* which is strategy.parse() of the location as it then is.                 *)

\* multiToSingle(multi)
multiToSingle(multi) == IF Len(multi) = 0 THEN Undefined ELSE Str(multi[1])

\* the memo test of useUrlParam without the param identity
MemoStale_EncodedOnly(cacheRef, encodedStr, prm) ==
    cacheRef = <<>> \/ cacheRef[1].encoded # encodedStr

\* cacheRef.current === null || cacheRef.current.encoded !== encoded
\*     || cacheRef.current.param !== param
MemoStale(cacheRef, encodedStr, prm) ==
    cacheRef = <<>> \/ cacheRef[1].encoded # encodedStr \/ cacheRef[1].param.id # prm.id

\* the cacheRef after the memo step of a render
Memoized(cacheRef, encodedStr, prm) ==
    IF MemoStale(cacheRef, encodedStr, prm)
    THEN <<[encoded |-> encodedStr, param |-> prm,
            decoded |-> ParamDecode(prm.p, FALSE, encodedStr).ret]>>
    ELSE cacheRef

\* a render of useUrlParam(key, param, push) with the location q
useUrlParam_render(h, prm, q) ==
    LET urlParams == parseMultiParams(q)
        encodedStr == multiToSingle(ValuesUnder(urlParams, h.key))
        cache == Memoized(h.cacheRef, encodedStr, prm)
    IN [h EXCEPT !.paramRef = prm, !.cacheRef = cache, !.value = <<cache[1].decoded>>]

\* the URL that setValue / writeToUrl hands to history: strategy.parse(), the key
\* deleted or set to [encoded], strategy.buildUrl
writeToUrl(key, q, newEncoded) ==
    LET currentParams == parseMultiParams(q)
    IN serializeMultiParams(IF ~newEncoded.def THEN ObjDelete(currentParams, key)
                            ELSE ObjSet(currentParams, key, <<newEncoded.s>>))

\* a render of useUrlState(key, param, options) with the location q: the value that
\* setValue was last given while the URL holds its encoding, the decoded URL otherwise
useUrlState_render(h, q) ==
    LET urlParams == parseMultiParams(q)
        encodedStr == multiToSingle(ValuesUnder(urlParams, h.key))
    IN IF h.lastWrittenRef # <<>> /\ h.lastWrittenRef[1].encoded = encodedStr
       THEN [h EXCEPT !.value = <<h.lastWrittenRef[1].decoded>>]
       ELSE LET cache == Memoized(h.cacheRef, encodedStr, h.paramRef)
            IN [h EXCEPT !.cacheRef = cache, !.value = <<cache[1].decoded>>,
                         !.lastWrittenRef = <<>>]

\* arraysEqual2(a, b) on arrays of strings
arraysEqual2(a, b) == Len(a) = Len(b) /\ \A i \in 1..Len(a) : a[i] = b[i]

\* a render of useMultiUrlState(key, param, options) with the location q
useMultiUrlState_render(h, q) ==
    LET urlParams == parseMultiParams(q)
        encodedArr == ValuesUnder(urlParams, h.key)
    IN IF h.lastWrittenRef # <<>> /\ arraysEqual2(h.lastWrittenRef[1].encoded, encodedArr)
       THEN [h EXCEPT !.value = <<h.lastWrittenRef[1].decoded>>]
       ELSE [h EXCEPT !.value = <<MultiDecodeOf(h.paramRef.p,
                                                [i \in 1..Len(encodedArr) |->
                                                    MStr(encodedArr[i])])>>,
                      !.lastWrittenRef = <<>>]

\* the URL that writeToUrl of useMultiUrlState hands to history
writeMultiToUrl(key, q, newEncoded) ==
    LET currentParams == parseMultiParams(q)
    IN serializeMultiParams(IF Len(newEncoded) = 0 THEN ObjDelete(currentParams, key)
                            ELSE ObjSet(currentParams, key, newEncoded))

\* the effect of useUrlState / useMultiUrlState, run after the first render:
\* debouncedWriteRef.current = debounce(writeToUrl, debounceMs) if debounceMs > 0
DebounceEffect(h) ==
    IF h.value = <<>> /\ h.debounceMs > 0
    THEN [h EXCEPT !.debouncedWriteRef = <<NewDebounce>>]
    ELSE h

\* a render of either hook
StateRender(h, q) ==
    IF h.kind = "useUrlState" THEN useUrlState_render(DebounceEffect(h), q)
    ELSE useMultiUrlState_render(DebounceEffect(h), q)

\* paramRef.current.encode(newValue): [ret, raised]; the array as its strings
StateEncode(h, newValue) ==
    IF h.kind = "useUrlState" THEN ParamEncode(h.paramRef.p, newValue)
    ELSE LET e == MultiEncodeOf(h.paramRef.p, newValue)
         IN Returned([i \in 1..Len(e) |-> e[i].str])

\* writeToUrl of either hook: the URL handed to history
StateWrite(h, q, newEncoded) ==
    IF h.kind = "useUrlState" THEN writeToUrl(h.key, q, newEncoded)
    ELSE writeMultiToUrl(h.key, q, newEncoded)

\* Object.keys(params) of useUrlStates / useMultiUrlStates
ParamKeys(h) == {h.params[i] : i \in 1..Len(h.params)}

\* a render of useUrlStates(params, options) with the location q: per key the value
\* that setValues was last given while the URL holds its encoding, the decoded URL
\* otherwise, with delete lastWrittenRef.current[key]
useUrlStates_render(h, q) ==
    LET urlParams == parseMultiParams(q)
        encodedStr(k) == multiToSingle(ValuesUnder(urlParams, k))
        Kept(k) == h.lastWrittenRef[k] # <<>> /\ h.lastWrittenRef[k][1].encoded = encodedStr(k)
    IN [h EXCEPT !.values = <<[k \in ParamKeys(h) |->
                                  IF Kept(k) THEN h.lastWrittenRef[k][1].decoded
                                  ELSE ParamDecode(h.param, FALSE, encodedStr(k)).ret]>>,
                 !.lastWrittenRef = [k \in ParamKeys(h) |->
                                        IF Kept(k) THEN h.lastWrittenRef[k] ELSE <<>>]]

\* a render of useMultiUrlStates(params, options) with the location q
useMultiUrlStates_render(h, q) ==
    LET urlParams == parseMultiParams(q)
        encodedArr(k) == ValuesUnder(urlParams, k)
        Kept(k) == /\ h.lastWrittenRef[k] # <<>>
                   /\ arraysEqual2(h.lastWrittenRef[k][1].encoded, encodedArr(k))
    IN [h EXCEPT !.values = <<[k \in ParamKeys(h) |->
                                  IF Kept(k) THEN h.lastWrittenRef[k][1].decoded
                                  ELSE MultiDecodeOf(h.param,
                                           [i \in 1..Len(encodedArr(k)) |->
                                               MStr(encodedArr(k)[i])])]>>,
                 !.lastWrittenRef = [k \in ParamKeys(h) |->
                                        IF Kept(k) THEN h.lastWrittenRef[k] ELSE <<>>]]

\* the effect of useUrlStates / useMultiUrlStates, run after the first render
StatesEffect(h) ==
    IF h.values = <<>> /\ h.debounceMs > 0
    THEN [h EXCEPT !.debouncedWriteRef = <<NewDebounce>>]
    ELSE h

\* a render of either hook
StatesRender(h, q) ==
    IF h.kind = "useUrlStates" THEN useUrlStates_render(StatesEffect(h), q)
    ELSE useMultiUrlStates_render(StatesEffect(h), q)

\* param.encode(value) in setValues: [ret, raised]
StatesEncode(h, value) ==
    IF h.kind = "useUrlStates" THEN ParamEncode(h.param, value)
    ELSE LET e == MultiEncodeOf(h.param, value)
         IN Returned([i \in 1..Len(e) |-> e[i].str])

\* the loop of setValues over Object.entries(updates): the entries of encodedUpdates,
\* without the keys that params does not have (if (!param) continue); call is the
\* number of the setValues call that the entry comes from
RECURSIVE EncodedUpdates(_, _, _)
EncodedUpdates(h, entries, call) ==
    IF entries = <<>> THEN <<>>
    ELSE IF Head(entries).key \notin ParamKeys(h)
         THEN EncodedUpdates(h, Tail(entries), call)
         ELSE <<[key |-> Head(entries).key,
                 encoded |-> StatesEncode(h, Head(entries).value).ret,
                 decoded |-> Head(entries).value,
                 call |-> call]>> \o EncodedUpdates(h, Tail(entries), call)

\* whether an encoded update deletes its key: encoded === undefined in useUrlStates,
\* encoded.length === 0 in useMultiUrlStates
DeletesKey(h, encodedUpdate) ==
    IF h.kind = "useUrlStates" THEN ~encodedUpdate.encoded.def
    ELSE Len(encodedUpdate.encoded) = 0

\* the loop of writeToUrl over Object.entries(updates)
RECURSIVE ApplyUpdates(_, _, _)
ApplyUpdates(h, currentParams, encodedUpdates) ==
    IF encodedUpdates = <<>> THEN currentParams
    ELSE LET u == Head(encodedUpdates)
         IN ApplyUpdates(h,
                IF DeletesKey(h, u) THEN ObjDelete(currentParams, u.key)
                ELSE ObjSet(currentParams, u.key,
                            IF h.kind = "useUrlStates" THEN <<u.encoded.s>> ELSE u.encoded),
                Tail(encodedUpdates))

\* the URL that writeToUrl(updates) of useUrlStates / useMultiUrlStates hands to history
writeStatesToUrl(h, q, encodedUpdates) ==
    serializeMultiParams(ApplyUpdates(h, parseMultiParams(q), encodedUpdates))

----------------------------------------------------------------------------
(* Bounds and input sets *)

MaxPrealloc == 1

MaxCount == 2

\* src/float.ts precisionSchemes
precisionSchemes ==
    << [expBits |-> 5, mantBits |-> 16], [expBits |-> 5, mantBits |-> 22],
       [expBits |-> 5, mantBits |-> 28], [expBits |-> 5, mantBits |-> 34],
       [expBits |-> 5, mantBits |-> 40], [expBits |-> 5, mantBits |-> 46],
       [expBits |-> 5, mantBits |-> 52] >>

\* the presets and one scheme given as exp / mant options
Schemes == {precisionSchemes[i] : i \in DOMAIN precisionSchemes}
               \cup {[expBits |-> 3, mantBits |-> 8]}

\* unbiased exponents: zero and subnormals, below, at and above the edges of
\* the 5-bit range, and ordinary ones
Exps == {-1023, -18, -17, 0, 6, 14, 15, 16}

\* mantissas: zero, lowest bit only, even, one that rounds up at 16 bits, all ones
Mants == {{}, {0}, {1, 30, 51}, {51, 40, 36, 3}, 0..51}

\* every combination above as a positive double, and a few negative ones
Doubles == {Dbl(FALSE, e + 1023, m) : e \in Exps, m \in Mants}
               \cup {Dbl(TRUE, e + 1023, m) : e \in {-1023, 0, 16}, m \in {{}, {0}}}

\* 100.0, about 0.001 and -(2 - 2^-52)
PairVals == {Dbl(FALSE, 1029, {51, 48}), Dbl(FALSE, 1013, {46, 45, 3}),
             Dbl(TRUE, 1023, 0..51)}

Batches == {<<x>> : x \in Doubles}
               \cup UNION {[1..n -> PairVals] : n \in 2..MaxCount}

SeekTargets == {0, 3}

Idle == <<>>

----------------------------------------------------------------------------
(* The BitBuffer and the fixed-point codec as a state machine: a buffer is  *)
(* constructed, encodeFixedPoints writes one batch into it, and the bits    *)
(* are read back with seek / decodeFixedPoints, possibly after a trip       *)
(* through toBase64 / fromBase64.                                           *)

This == [buf |-> buf, byteOffset |-> byteOffset, bitOffset |-> bitOffset, end |-> end]

SetThis(b) ==
    /\ buf' = b.buf
    /\ byteOffset' = b.byteOffset
    /\ bitOffset' = b.bitOffset
    /\ end' = b.end

FloatIdle == fx = Idle /\ fd = Idle /\ fy = Idle

Base64Idle == bytesIn = Idle /\ str = Idle /\ bytesOut = Idle

ParamIdle ==
    /\ param = Idle /\ op = Idle /\ arg = Idle /\ ret = Idle
    /\ raised = FALSE /\ caught = FALSE /\ origin = Idle

HooksIdle ==
    /\ hook = Idle /\ window = FALSE /\ url = <<>> /\ prevUrl = <<>>
    /\ updates = <<>> /\ calls = <<>> /\ threw = FALSE

MapsIdle == paramMap = <<>> /\ search = <<>> /\ reparsed = <<>>

DebounceIdle ==
    /\ timeoutId = 0 /\ timers = {} /\ issued = 0
    /\ called = <<>> /\ cancelled = FALSE /\ fired = <<>>

SnapIdle ==
    /\ location = <<>> /\ snapshotCache = <<>> /\ snapshots = 0
    /\ previous = <<>> /\ gotSnap = <<>>

StateIdle == instances = <<>> /\ rendered = <<>> /\ lastSet = <<>>

ReactIdle == DebounceIdle /\ SnapIdle /\ StateIdle

IntsIdle ==
    /\ num = <<>> /\ big = <<>> /\ got = <<>> /\ trimmed = <<>>
    /\ high = 0 /\ lastWrite = "none"

BufferIdle ==
    /\ buf = <<>> /\ byteOffset = 0 /\ bitOffset = 0 /\ end = 0
    /\ scheme = Idle /\ vals = <<>> /\ pre = Idle /\ thrown = FALSE
    /\ out = <<>> /\ encoded = FALSE /\ start = 0 /\ last = Idle

InitBuffer ==
    /\ \E numBytes \in 0..MaxPrealloc :
          /\ buf = NewBitBuffer(numBytes).buf
          /\ byteOffset = 0 /\ bitOffset = 0 /\ end = 0
          /\ pre = NewBitBuffer(numBytes)
    /\ scheme \in Schemes
    /\ vals = <<>> /\ thrown = FALSE /\ out = <<>>
    /\ encoded = FALSE /\ start = 0 /\ last = "new"
    /\ FloatIdle /\ Base64Idle /\ ParamIdle /\ IntsIdle /\ HooksIdle /\ MapsIdle /\ ReactIdle

Seek ==
    /\ vals = <<>> \/ encoded
    /\ out = <<>>
    /\ \E pos \in SeekTargets :
          /\ pos <= 8 * Len(buf)
          /\ pos # totalBitOffset(This)
          /\ SetThis(seek(This, pos))
    /\ pre' = This /\ thrown' = FALSE /\ last' = "seek"
    /\ UNCHANGED <<scheme, vals, out, encoded, start>>

EncodeFixedPoints ==
    /\ vals = <<>>
    /\ \E xs \in Batches :
          \E r \in {encodeFixedPoints(This, xs, scheme)} :
             /\ SetThis(r.b)
             /\ vals' = xs
             /\ thrown' = r.thrown
             /\ encoded' = ~r.thrown
    /\ pre' = This /\ start' = totalBitOffset(This) /\ out' = <<>>
    /\ last' = "encodeFixedPoints"
    /\ UNCHANGED scheme

DecodeFixedPoints ==
    /\ encoded
    /\ out = <<>>
    /\ \E count \in 1..MaxCount :
          \E r \in {decodeFixedPoints(This, count, scheme)} :
             /\ SetThis(r.b)
             /\ out' = r.vals
    /\ pre' = This /\ thrown' = FALSE /\ last' = "decodeFixedPoints"
    /\ UNCHANGED <<scheme, vals, encoded, start>>

\* BitBuffer.fromBase64(buf.toBase64()), as a Param's decode sees what its encode wrote
Reload ==
    /\ encoded /\ last = "encodeFixedPoints"
    /\ \E b \in {fromBase64(toBase64(This))} : SetThis(b)
    /\ pre' = This /\ thrown' = FALSE /\ last' = "fromBase64"
    /\ UNCHANGED <<scheme, vals, out, encoded, start>>

NextBuffer ==
    \/ Seek /\ UNCHANGED <<floatVars, b64Vars, paramVars, intVars, hookVars, mapVars, reactVars>>
    \/ EncodeFixedPoints /\ UNCHANGED <<floatVars, b64Vars, paramVars, intVars, hookVars, mapVars, reactVars>>
    \/ DecodeFixedPoints /\ UNCHANGED <<floatVars, b64Vars, paramVars, intVars, hookVars, mapVars, reactVars>>
    \/ Reload /\ UNCHANGED <<floatVars, b64Vars, paramVars, intVars, hookVars, mapVars, reactVars>>

SpecBuffer == InitBuffer /\ [][NextBuffer]_vars

----------------------------------------------------------------------------
(* toFloat / fromFloat applied to finite doubles *)

\* exponent fields: zero and subnormals, smallest and largest normal, ordinary
Fields == {0, 1, 1005, 1023, 1029, 1039, 2046}

FloatInputs == {Dbl(neg, fld, m) : neg \in BOOLEAN, fld \in Fields, m \in Mants}

InitFloat ==
    /\ fx \in FloatInputs /\ fd = <<>> /\ fy = <<>>
    /\ BufferIdle /\ Base64Idle /\ ParamIdle /\ IntsIdle /\ HooksIdle /\ MapsIdle /\ ReactIdle

ToFloat ==
    /\ fd = <<>>
    /\ fd' = <<toFloat(fx)>>
    /\ UNCHANGED <<fx, fy>>

FromFloat ==
    /\ fd # <<>> /\ fy = <<>>
    /\ fy' = <<fromFloat(fd[1])>>
    /\ UNCHANGED <<fx, fd>>

NextFloat ==
    \/ ToFloat /\ UNCHANGED <<bufVars, b64Vars, paramVars, intVars, hookVars, mapVars, reactVars>>
    \/ FromFloat /\ UNCHANGED <<bufVars, b64Vars, paramVars, intVars, hookVars, mapVars, reactVars>>

SpecFloat == InitFloat /\ [][NextFloat]_vars

----------------------------------------------------------------------------
(* base64Encode / base64Decode applied to byte arrays *)

MaxBytes == 4

ByteVals == {0, 1, 127, 128, 255}

ByteArrays == UNION {[1..n -> ByteVals] : n \in 0..MaxBytes}

InitBase64 ==
    /\ bytesIn \in ByteArrays /\ str = <<>> /\ bytesOut = <<>>
    /\ BufferIdle /\ FloatIdle /\ ParamIdle /\ IntsIdle /\ HooksIdle /\ MapsIdle /\ ReactIdle

Base64Encode ==
    /\ str = <<>>
    /\ str' = <<base64Encode(bytesIn)>>
    /\ UNCHANGED <<bytesIn, bytesOut>>

Base64Decode ==
    /\ str # <<>> /\ bytesOut = <<>>
    /\ bytesOut' = <<base64Decode(str[1])>>
    /\ UNCHANGED <<bytesIn, str>>

NextBase64 ==
    \/ Base64Encode /\ UNCHANGED <<bufVars, floatVars, paramVars, intVars, hookVars, mapVars, reactVars>>
    \/ Base64Decode /\ UNCHANGED <<bufVars, floatVars, paramVars, intVars, hookVars, mapVars, reactVars>>

SpecBase64 == InitBase64 /\ [][NextBase64]_vars

----------------------------------------------------------------------------
(* base64Decode applied to arbitrary text *)

MaxText == 5

\* characters of the alphabet, the padding character and a character outside both
TextChars == {"A", "Q", "_", "=", "/"}

TextInputs == UNION {[1..n -> TextChars] : n \in 0..MaxText}

InitText ==
    /\ str \in {<<s>> : s \in TextInputs}
    /\ bytesIn = <<>> /\ bytesOut = <<>>
    /\ BufferIdle /\ FloatIdle /\ ParamIdle /\ IntsIdle /\ HooksIdle /\ MapsIdle /\ ReactIdle

\* base64Decode(str)
Base64DecodeText ==
    /\ bytesOut = <<>>
    /\ bytesOut' = <<base64Decode(str[1])>>
    /\ UNCHANGED <<bytesIn, str>>

NextText == Base64DecodeText /\ UNCHANGED <<bufVars, floatVars, paramVars, intVars, hookVars, mapVars, reactVars>>

SpecText == InitText /\ [][NextText]_vars

----------------------------------------------------------------------------
(* A Param in use: it is made with some options, and then encode and decode *)
(* are called on it, decode with strings from anywhere (a URL is user       *)
(* input) and with what encode returned.                                    *)

Zero == F64({})

One == F64(Dbl(FALSE, 1023, {}))

\* the NaN that setFloat64 writes: 0x7ff8000000000000
NaN64 == F64(Dbl(FALSE, 2047, {51}))

\* 0, -0, 1, 1.5, -2.5, 100, 2^-18, 2^16 and NaN
FloatValues ==
    {Zero, F64({63}), One, F64(Dbl(FALSE, 1023, {51})), F64(Dbl(TRUE, 1024, {50})),
     F64(Dbl(FALSE, 1029, {51, 48})), F64(Dbl(FALSE, 1005, {})), F64(Dbl(FALSE, 1039, {})),
     NaN64}

\* 0, -0, 1.5, -1.5, 0.05, 2.5, -0.4, 12.34
DecValues ==
    {Dec(FALSE, 0), Dec(TRUE, 0), Dec(FALSE, 150), Dec(TRUE, 150), Dec(FALSE, 5),
     Dec(FALSE, 250), Dec(TRUE, 40), Dec(FALSE, 1234)}

NullPoint(encoding) ==
    IF encoding = "string" THEN [null |-> TRUE, x |-> Dec(FALSE, 0), y |-> Dec(FALSE, 0)]
    ELSE [null |-> TRUE, x |-> Zero, y |-> Zero]

PointValues(encoding) ==
    {NullPoint(encoding)} \cup
    (IF encoding = "string"
     THEN {Point(Dec(FALSE, 0), Dec(FALSE, 0)), Point(Dec(FALSE, 150), Dec(TRUE, 100)),
           Point(Dec(TRUE, 5), Dec(FALSE, 250))}
     ELSE {Point(Zero, Zero), Point(One, F64(Dbl(TRUE, 1023, {51}))),
           Point(F64(Dbl(FALSE, 1029, {51, 48})), F64(Dbl(FALSE, 1039, {}))),
           Point(NaN64, Zero)})

BytesValues == {NullBytes, [null |-> FALSE, bytes |-> <<>>], [null |-> FALSE, bytes |-> <<1, 255>>]}

FloatParams ==
    {[type |-> "float", default |-> d, encoding |-> "base64", scheme |-> s, decimals |-> <<>>] :
        d \in {Zero, One, NaN64},
        s \in {<<>>, <<precisionSchemes[1]>>, <<precisionSchemes[2]>>}}
    \cup
    {[type |-> "float", default |-> d, encoding |-> "string", scheme |-> <<>>, decimals |-> n] :
        d \in {Dec(FALSE, 0), Dec(FALSE, 150)},
        n \in {<<>>, <<0>>, <<2>>}}

PointParams ==
    {[type |-> "point", default |-> d, encoding |-> "base64", scheme |-> <<>>, decimals |-> <<>>] :
        d \in {NullPoint("base64"), Point(Zero, Zero), Point(One, F64(Dbl(TRUE, 1023, {51}))),
               Point(NaN64, Zero)}}
    \cup
    {[type |-> "point", default |-> d, encoding |-> "string", scheme |-> <<>>, decimals |-> <<>>] :
        d \in {NullPoint("string"), Point(Dec(FALSE, 150), Dec(TRUE, 100))}}

BinaryParams ==
    {[type |-> "binary", default |-> NullBytes, encoding |-> "base64", scheme |-> <<>>,
      decimals |-> <<>>]}

Params == FloatParams \cup PointParams \cup BinaryParams

\* the values a Param of these options is given to encode
ValuesOf(p) ==
    IF p.type = "binary" THEN BytesValues
    ELSE IF p.type = "point" THEN PointValues(p.encoding)
    ELSE IF p.encoding = "string" THEN DecValues
    ELSE FloatValues

\* "P_AAAAAAAAA" is the lossless encoding of 1.0
Texts ==
    { <<"A">>, <<"!">>, <<"x", "!">>, <<"=">>, <<"A", "A", "A", "A">>,
      <<"1", ".", "5">>, <<"1", "x">>, <<"-">>, <<".">>, <<" ", "1">>, <<"-", ".", "5">>,
      <<"1", " ", "2">>, <<"1", "-", "2">>, <<"1", " ", "2", " ", "3">>,
      <<"P", "_", "A", "A", "A", "A", "A", "A", "A", "A", "A">>,
      <<"P", "_", "!", "A", "A", "A", "A", "A", "A", "A", "A">>,
      <<"P", "_", "A", "A", "A">> }

\* what a decode may be given: undefined, "", and the texts above
EncodedInputs == {Undefined, Str(<<>>)} \cup {Str(s) : s \in Texts}

InitParam ==
    /\ param \in Params
    /\ op = "new" /\ arg = Idle /\ ret = Idle
    /\ raised = FALSE /\ caught = FALSE /\ origin = Idle
    /\ BufferIdle /\ FloatIdle /\ Base64Idle /\ IntsIdle /\ HooksIdle /\ MapsIdle /\ ReactIdle

\* param.encode(value)
Encode ==
    /\ \E value \in ValuesOf(param) :
          \E r \in {ParamEncode(param, value)} :
             /\ arg' = value
             /\ ret' = r.ret
             /\ raised' = r.raised
             /\ caught' = r.caught
    /\ op' = "encode" /\ origin' = Idle
    /\ UNCHANGED param

\* param.decode(encoded) of an arbitrary input
Decode ==
    /\ \E encodedStr \in EncodedInputs, fromBytesThrows \in BOOLEAN :
          /\ fromBytesThrows => param.type = "binary" /\ ~Absent(encodedStr)
          /\ \E r \in {ParamDecode(param, fromBytesThrows, encodedStr)} :
                /\ arg' = encodedStr
                /\ ret' = r.ret
                /\ raised' = r.raised
                /\ caught' = r.caught
    /\ op' = "decode" /\ origin' = Idle
    /\ UNCHANGED param

\* param.decode of the string the preceding encode returned, as when the value
\* written to the URL is read back
DecodeEncoded ==
    /\ op = "encode" /\ ~raised /\ ret.def
    /\ \E r \in {ParamDecode(param, FALSE, ret)} :
          /\ ret' = r.ret
          /\ raised' = r.raised
          /\ caught' = r.caught
    /\ arg' = ret /\ origin' = <<arg>>
    /\ op' = "decode"
    /\ UNCHANGED param

NextParam ==
    \/ Encode /\ UNCHANGED <<bufVars, floatVars, b64Vars, intVars, hookVars, mapVars, reactVars>>
    \/ Decode /\ UNCHANGED <<bufVars, floatVars, b64Vars, intVars, hookVars, mapVars, reactVars>>
    \/ DecodeEncoded /\ UNCHANGED <<bufVars, floatVars, b64Vars, intVars, hookVars, mapVars, reactVars>>

SpecParam == InitParam /\ [][NextParam]_vars

----------------------------------------------------------------------------
(* The multi-value Params as a state machine: a Param is made with its      *)
(* default array (init), then encode and decode are called on it; a decode  *)
(* may be given the array the preceding encode returned.                    *)

MaxMulti == 2

ArraysOver(elems) == UNION {[1..n -> elems] : n \in 0..MaxMulti}

\* "a", "b"
StringElems == {MStr(<<"a">>), MStr(<<"b">>)}

\* -5, 0, 42
IntElems == {Dec(TRUE, 500), Dec(FALSE, 0), Dec(FALSE, 4200)}

\* 1.5, -2.5, NaN
FloatElems == {Dec(FALSE, 150), Dec(TRUE, 250), NaN}

\* "a", "-5", "1.5"
MultiTexts == {MStr(<<"a">>), MStr(<<"-", "5">>), MStr(<<"1", ".", "5">>)}

MultiElems(type) ==
    CASE type = "multiString" -> StringElems
      [] type = "multiInt" -> IntElems
      [] type = "multiFloat" -> FloatElems

MultiParams ==
    {[type |-> type, init |-> init] :
        type \in {"multiString"}, init \in ArraysOver(StringElems)}
    \cup {[type |-> type, init |-> init] :
        type \in {"multiInt"}, init \in ArraysOver(IntElems)}
    \cup {[type |-> type, init |-> init] :
        type \in {"multiFloat"}, init \in ArraysOver(FloatElems)}

InitMulti ==
    /\ param \in MultiParams
    /\ op = "new" /\ arg = Idle /\ ret = Idle
    /\ raised = FALSE /\ caught = FALSE /\ origin = Idle
    /\ BufferIdle /\ FloatIdle /\ Base64Idle /\ IntsIdle /\ HooksIdle /\ MapsIdle /\ ReactIdle

\* param.encode(values)
MultiEncode ==
    /\ \E values \in ArraysOver(MultiElems(param.type)) :
          /\ arg' = values
          /\ ret' = MultiEncodeOf(param, values)
    /\ op' = "encode" /\ origin' = Idle
    /\ UNCHANGED <<param, raised, caught>>

\* param.decode(encoded) of the strings found under the key
MultiDecode ==
    /\ \E encodedArr \in ArraysOver(MultiTexts) :
          /\ arg' = encodedArr
          /\ ret' = MultiDecodeOf(param, encodedArr)
    /\ op' = "decode" /\ origin' = Idle
    /\ UNCHANGED <<param, raised, caught>>

\* param.decode of the array the preceding encode returned
MultiDecodeEncoded ==
    /\ op = "encode"
    /\ ret' = MultiDecodeOf(param, ret)
    /\ arg' = ret /\ origin' = <<arg>>
    /\ op' = "decode"
    /\ UNCHANGED <<param, raised, caught>>

NextMulti ==
    \/ MultiEncode /\ UNCHANGED <<bufVars, floatVars, b64Vars, intVars, hookVars, mapVars, reactVars>>
    \/ MultiDecode /\ UNCHANGED <<bufVars, floatVars, b64Vars, intVars, hookVars, mapVars, reactVars>>
    \/ MultiDecodeEncoded /\ UNCHANGED <<bufVars, floatVars, b64Vars, intVars, hookVars, mapVars, reactVars>>

SpecMulti == InitMulti /\ [][NextMulti]_vars

----------------------------------------------------------------------------
(* useUrlParams / useMultiUrlParams as a state machine: the hook is given   *)
(* its params and push flag, the location holds some parameters, and        *)
(* setValues is called with an object of updates.                           *)

MaxUpdates == 2

\* floatParam(0) in its string encoding and floatParam({default: 0, exp: 5, mant: 16})
SingleParams ==
    LET full == [type |-> "float", default |-> Dec(FALSE, 0), encoding |-> "string",
                 scheme |-> <<>>, decimals |-> <<>>]
        lossy == [type |-> "float", default |-> Zero, encoding |-> "base64",
                  scheme |-> <<[expBits |-> 5, mantBits |-> 16]>>, decimals |-> <<>>]
    IN {[a |-> full], [a |-> full, b |-> lossy]}

\* multiStringParam() and multiStringParam(['x'])
MultiHookParams ==
    LET plain == [type |-> "multiString", init |-> <<>>]
        withInit == [type |-> "multiString", init |-> <<MStr(<<"x">>)>>]
    IN {[a |-> plain], [a |-> plain, b |-> withInit]}

Hooks ==
    {[kind |-> "single", params |-> ps, push |-> push] :
        ps \in SingleParams, push \in BOOLEAN}
    \cup {[kind |-> "multi", params |-> ps, push |-> push] :
        ps \in MultiHookParams, push \in BOOLEAN}

\* the values an update gives under a key: 0 and 1.5; 0, 1 and 2^16; the arrays
\* [], ['x'], ['', 'x'] and ['x', '']
UpdateValues(h, key) ==
    IF h.kind = "single"
    THEN CASE key = "a" -> {Dec(FALSE, 0), Dec(FALSE, 150)}
           [] key = "b" -> {Zero, One, F64(Dbl(FALSE, 1039, {}))}
           [] OTHER -> {Dec(FALSE, 0)}
    ELSE IF key \in {"a", "b"}
         THEN {<<>>, <<MStr(<<"x">>)>>, <<MStr(<<>>), MStr(<<"x">>)>>,
               <<MStr(<<"x">>), MStr(<<>>)>>}
         ELSE {<<>>}

UpdateKeys == {"a", "b", "constructor"}

UpdateEntries(h) ==
    UNION {{[key |-> key, value |-> value] : value \in UpdateValues(h, key)} :
              key \in UpdateKeys}

\* Object.entries(updates): up to MaxUpdates entries with distinct keys
UpdatesOf(h) ==
    {es \in UNION {[1..n -> UpdateEntries(h)] : n \in 0..MaxUpdates} :
        \A i, j \in 1..Len(es) : i # j => es[i].key # es[j].key}

\* "" and "z=1&a=9&a=x"
InitialUrls ==
    {<<>>,
     <<[key |-> "z", value |-> <<"1">>], [key |-> "a", value |-> <<"9">>],
       [key |-> "a", value |-> <<"x">>]>>}

InitHooks ==
    /\ hook \in Hooks
    /\ window \in BOOLEAN
    /\ url \in InitialUrls /\ prevUrl = url
    /\ updates = <<>> /\ calls = <<>> /\ threw = FALSE
    /\ BufferIdle /\ FloatIdle /\ Base64Idle /\ ParamIdle /\ IntsIdle
    /\ MapsIdle /\ ReactIdle

\* setValues(updates): nothing without a window; otherwise the loop over the
\* updates, then one history call with the URL built from the result (the popstate
\* event dispatched last makes the subscribed hooks read the location again)
SetValues ==
    /\ \E entries \in UpdatesOf(hook) :
          /\ updates' = entries
          /\ IF ~window
             THEN calls' = <<>> /\ threw' = FALSE /\ url' = url
             ELSE \E r \in {SetValuesLoop(hook, parseMultiParams(url), entries)} :
                     IF r.threw
                     THEN calls' = <<>> /\ threw' = TRUE /\ url' = url
                     ELSE \E newUrl \in {serializeMultiParams(r.params)} :
                             /\ calls' = <<[method |-> IF hook.push THEN "pushState"
                                                       ELSE "replaceState",
                                            url |-> newUrl]>>
                             /\ threw' = FALSE
                             /\ url' = newUrl
    /\ prevUrl' = url
    /\ UNCHANGED <<hook, window>>

NextHooks ==
    SetValues /\ UNCHANGED <<bufVars, floatVars, b64Vars, paramVars, intVars, mapVars, reactVars>>

SpecHooks == InitHooks /\ [][NextHooks]_vars

----------------------------------------------------------------------------
(* serializeMultiParams and parseMultiParams as a state machine: a          *)
(* Record<string, MultiEncoded> is serialized, and the string is parsed.    *)

MaxValues == 2

MaxKeys == 2

\* the keys '', 'a' and 'b'
MapKeys == {"", "a", "b"}

\* the values '' and 'x'
MapValues == {<<>>, <<"x">>}

\* the arrays of up to MaxValues values, the empty array and repeated values included
ValueLists == UNION {[1..n -> MapValues] : n \in 0..MaxValues}

\* the objects of up to MaxKeys properties, in every insertion order
ParamMaps ==
    {es \in UNION {[1..n -> [key : MapKeys, values : ValueLists]] : n \in 0..MaxKeys} :
        \A i, j \in 1..Len(es) : i # j => es[i].key # es[j].key}

InitMaps ==
    /\ paramMap \in ParamMaps /\ search = <<>> /\ reparsed = <<>>
    /\ BufferIdle /\ FloatIdle /\ Base64Idle /\ ParamIdle /\ IntsIdle /\ HooksIdle /\ ReactIdle

\* serializeMultiParams(params)
SerializeMultiParams ==
    /\ search = <<>>
    /\ search' = <<serializeMultiParams(paramMap)>>
    /\ UNCHANGED <<paramMap, reparsed>>

\* parseMultiParams(source) of the string just serialized
ParseMultiParams ==
    /\ search # <<>> /\ reparsed = <<>>
    /\ reparsed' = <<parseMultiParams(search[1])>>
    /\ UNCHANGED <<paramMap, search>>

NextMaps ==
    \/ SerializeMultiParams
          /\ UNCHANGED <<bufVars, floatVars, b64Vars, paramVars, intVars, hookVars, reactVars>>
    \/ ParseMultiParams
          /\ UNCHANGED <<bufVars, floatVars, b64Vars, paramVars, intVars, hookVars, reactVars>>

SpecMaps == InitMaps /\ [][NextMaps]_vars

----------------------------------------------------------------------------
(* debounce as a state machine: debounced is called with some arguments,    *)
(* cancel() is called, and pending timers expire, in any order.             *)

MaxCalls == 4

\* the arguments of a call (in the hooks: the value to write)
DebounceArgs == {"x", "y"}

Debounce == [timeoutId |-> timeoutId, timers |-> timers, issued |-> issued]

SetDebounce(d) == timeoutId' = d.timeoutId /\ timers' = d.timers /\ issued' = d.issued

InitDebounce ==
    /\ timeoutId = 0 /\ timers = {} /\ issued = 0
    /\ called = <<>> /\ cancelled = FALSE /\ fired = <<>>
    /\ BufferIdle /\ FloatIdle /\ Base64Idle /\ ParamIdle /\ IntsIdle /\ HooksIdle /\ MapsIdle
    /\ SnapIdle /\ StateIdle

\* debounced(args)
CallDebounced ==
    /\ Len(called) < MaxCalls
    /\ \E args \in DebounceArgs :
          /\ SetDebounce(debounced(Debounce, args))
          /\ called' = Append(called, args)
    /\ cancelled' = FALSE
    /\ UNCHANGED fired

\* debounced.cancel(), as the effect cleanup of the hooks runs it
Cancel ==
    /\ called # <<>>
    /\ SetDebounce(cancel(Debounce))
    /\ cancelled' = TRUE
    /\ UNCHANGED <<called, fired>>

\* a pending timer expires: timeoutId = null; fn(...args)
TimerExpires ==
    /\ \E timer \in timers :
          /\ SetDebounce(expire(Debounce, timer))
          /\ fired' = Append(fired, [args |-> timer.args, call |-> timer.id,
                                      calls |-> Len(called), cancelled |-> cancelled])
    /\ UNCHANGED <<called, cancelled>>

DebounceFrame ==
    UNCHANGED <<bufVars, floatVars, b64Vars, paramVars, intVars, hookVars, mapVars, snapVars,
                stateVars>>

NextDebounce ==
    \/ CallDebounced /\ DebounceFrame
    \/ Cancel /\ DebounceFrame
    \/ TimerExpires /\ DebounceFrame

SpecDebounce == InitDebounce /\ [][NextDebounce]_vars

----------------------------------------------------------------------------
(* getSnapshot as a state machine: the location changes (navigation,        *)
(* pushState / replaceState), and getSnapshot is called for the query or    *)
(* the hash strategy, as useSyncExternalStore does on every render and      *)
(* every location event.                                                    *)

MaxSnapshots == 4

\* "", "?a=1" and "?a=1&a=2"
Searches ==
    {[mark |-> "", entries |-> <<>>],
     [mark |-> "?", entries |-> <<[key |-> "a", value |-> <<"1">>]>>],
     [mark |-> "?", entries |-> <<[key |-> "a", value |-> <<"1">>],
                                  [key |-> "a", value |-> <<"2">>]>>]}

\* "" and "#a=1"
Hashes ==
    {[mark |-> "", entries |-> <<>>],
     [mark |-> "#", entries |-> <<[key |-> "a", value |-> <<"1">>]>>]}

Locations == [search : Searches, hash : Hashes]

InitSnapshot ==
    /\ location \in Locations
    /\ snapshotCache = [s \in Strategies |-> <<>>] /\ snapshots = 0
    /\ previous = [s \in Strategies |-> <<>>] /\ gotSnap = <<>>
    /\ BufferIdle /\ FloatIdle /\ Base64Idle /\ ParamIdle /\ IntsIdle /\ HooksIdle /\ MapsIdle
    /\ DebounceIdle /\ StateIdle

\* the location becomes another one
Navigate ==
    /\ location' \in Locations \ {location}
    /\ UNCHANGED <<snapshotCache, snapshots, previous, gotSnap>>

\* getSnapshot(strategy)
GetSnapshot ==
    /\ \E strategy \in Strategies :
          \E r \in {getSnapshot(strategy, snapshotCache, location, snapshots)} :
             /\ r.count <= MaxSnapshots
             /\ snapshotCache' = r.cache
             /\ snapshots' = r.count
             /\ gotSnap' = <<[strategy |-> strategy, location |-> location,
                              raw |-> getRaw(strategy, location),
                              snapshot |-> r.snapshot, before |-> previous[strategy]]>>
             /\ previous' = [previous EXCEPT ![strategy] =
                                <<[raw |-> getRaw(strategy, location), snapshot |-> r.snapshot]>>]
    /\ UNCHANGED location

SnapshotFrame ==
    UNCHANGED <<bufVars, floatVars, b64Vars, paramVars, intVars, hookVars, mapVars, debVars,
                stateVars>>

NextSnapshot ==
    \/ Navigate /\ SnapshotFrame
    \/ GetSnapshot /\ SnapshotFrame

SpecSnapshot == InitSnapshot /\ [][NextSnapshot]_vars

----------------------------------------------------------------------------
(* useUrlParam as a state machine: a component with useUrlParam('a', param, *)
(* push) renders, each time with a param object (the same one, another one  *)
(* with the same options, or one with another default), and calls setValue. *)

\* floatParam({default: 0, encoding: 'string', decimals: 0}), twice, and the same with
\* the default 1.5
ParamObjects ==
    LET trunc(d) == [type |-> "float", default |-> d, encoding |-> "string",
                     scheme |-> <<>>, decimals |-> <<0>>]
    IN {[id |-> 1, p |-> trunc(Dec(FALSE, 0))], [id |-> 2, p |-> trunc(Dec(FALSE, 0))],
        [id |-> 3, p |-> trunc(Dec(FALSE, 150))]}

\* 0, 1.5, 2 and -0.4
SetValueArgs == {Dec(FALSE, 0), Dec(FALSE, 150), Dec(FALSE, 200), Dec(TRUE, 40)}

\* "", "z=1&a=9&a=x", "z&z=1&a=2" and "z&z"
ParamHookUrls ==
    {<<>>,
     <<[key |-> "z", value |-> <<"1">>], [key |-> "a", value |-> <<"9">>],
       [key |-> "a", value |-> <<"x">>]>>,
     <<[key |-> "z", value |-> <<>>], [key |-> "z", value |-> <<"1">>],
       [key |-> "a", value |-> <<"2">>]>>,
     <<[key |-> "z", value |-> <<>>], [key |-> "z", value |-> <<>>]>>}

\* useUrlParam(key, param, push) before its first render
NewUrlParam(key, push) ==
    [kind |-> "useUrlParam", key |-> key, push |-> push,
     paramRef |-> <<>>, cacheRef |-> <<>>, value |-> <<>>]

InitParamHook ==
    /\ \E push \in BOOLEAN : instances = <<NewUrlParam("a", push)>>
    /\ rendered = <<>> /\ lastSet = <<>>
    /\ window \in BOOLEAN
    /\ url \in ParamHookUrls /\ prevUrl = url
    /\ hook = Idle /\ updates = <<>> /\ calls = <<>> /\ threw = FALSE
    /\ BufferIdle /\ FloatIdle /\ Base64Idle /\ ParamIdle /\ IntsIdle /\ MapsIdle
    /\ DebounceIdle /\ SnapIdle

\* the component renders: useUrlParam(key, param, push)
RenderParam ==
    /\ \E prm \in ParamObjects :
          \E h \in {useUrlParam_render(instances[1], prm, url)} :
             /\ instances' = <<h>>
             /\ rendered' = <<[instance |-> 1, param |-> prm,
                               encoded |-> multiToSingle(getAll(url, h.key)),
                               value |-> h.value[1],
                               cacheBefore |-> instances[1].cacheRef,
                               reused |-> h.cacheRef = instances[1].cacheRef]>>
    /\ UNCHANGED <<lastSet, hookVars>>

\* setValue(newValue) of the last render: nothing without a window; otherwise the
\* encode by paramRef.current, one history call, and the popstate event
SetValueParam ==
    /\ instances[1].value # <<>>
    /\ \E newValue \in SetValueArgs :
          \E r \in {ParamEncode(instances[1].paramRef.p, newValue)} :
             /\ lastSet' = <<[instance |-> 1, value |-> newValue, encoded |-> r.ret,
                              raised |-> r.raised]>>
             /\ IF ~window
                THEN calls' = <<>> /\ threw' = FALSE /\ url' = url
                ELSE IF r.raised
                THEN calls' = <<>> /\ threw' = TRUE /\ url' = url
                ELSE \E newUrl \in {writeToUrl(instances[1].key, url, r.ret)} :
                        /\ calls' = <<[method |-> IF instances[1].push THEN "pushState"
                                                  ELSE "replaceState",
                                       url |-> newUrl]>>
                        /\ threw' = FALSE
                        /\ url' = newUrl
    /\ prevUrl' = url
    /\ UNCHANGED <<instances, rendered, hook, window, updates>>

ParamHookFrame ==
    UNCHANGED <<bufVars, floatVars, b64Vars, paramVars, intVars, mapVars, debVars, snapVars>>

NextParamHook ==
    \/ RenderParam /\ ParamHookFrame
    \/ SetValueParam /\ ParamHookFrame

SpecParamHook == InitParamHook /\ [][NextParamHook]_vars

----------------------------------------------------------------------------
(* useUrlState / useMultiUrlState as a state machine: two components,       *)
(* bound to the keys 'a' and 'b', render (for any reason: a location event, *)
(* a parent render, other state), call setValue, and their debounce timers  *)
(* expire, in any order.  Each instance also records the value that         *)
(* setValue was last given (set), how far that value has come (phase:       *)
(* "pending" until written, "written" until the next render, then "shown"), *)
(* and whether a render took place while it was pending (interleaved).      *)

MaxSets == 2

\* useUrlState(key, floatParam({default: 0, encoding: 'string', decimals: 0}), options)
NewUrlState(key, debounceMs, push) ==
    [kind |-> "useUrlState", key |-> key, push |-> push, debounceMs |-> debounceMs,
     paramRef |-> [id |-> 1, p |-> [type |-> "float", default |-> Dec(FALSE, 0),
                                    encoding |-> "string", scheme |-> <<>>,
                                    decimals |-> <<0>>]],
     cacheRef |-> <<>>, lastWrittenRef |-> <<>>, debouncedWriteRef |-> <<>>,
     value |-> <<>>, set |-> <<>>, sets |-> 0, phase |-> "idle", interleaved |-> FALSE]

\* useMultiUrlState(key, multiStringParam(), options)
NewMultiUrlState(key, debounceMs, push) ==
    [kind |-> "useMultiUrlState", key |-> key, push |-> push, debounceMs |-> debounceMs,
     paramRef |-> [id |-> 2, p |-> [type |-> "multiString", init |-> <<>>]],
     cacheRef |-> <<>>, lastWrittenRef |-> <<>>, debouncedWriteRef |-> <<>>,
     value |-> <<>>, set |-> <<>>, sets |-> 0, phase |-> "idle", interleaved |-> FALSE]

\* the pairs of components: debounced with immediate, both debounced, both immediate
StateInstances ==
    {<<NewUrlState("a", 300, FALSE), NewUrlState("b", 0, TRUE)>>,
     <<NewUrlState("a", 300, FALSE), NewMultiUrlState("b", 300, FALSE)>>,
     <<NewUrlState("a", 0, TRUE), NewMultiUrlState("b", 0, FALSE)>>}

\* the values given to setValue: 0 and 1.5; [] , ['x'] and ['', 'x']
StateValues(h) ==
    IF h.kind = "useUrlState" THEN {Dec(FALSE, 0), Dec(FALSE, 150)}
    ELSE {<<>>, <<MStr(<<"x">>)>>, <<MStr(<<>>), MStr(<<"x">>)>>}

\* "" and "a=2&b=x"
StateUrls ==
    {<<>>, <<[key |-> "a", value |-> <<"2">>], [key |-> "b", value |-> <<"x">>]>>}

InitState ==
    /\ instances \in StateInstances
    /\ rendered = <<>> /\ lastSet = <<>>
    /\ window = TRUE
    /\ url \in StateUrls /\ prevUrl = url
    /\ hook = Idle /\ updates = <<>> /\ calls = <<>> /\ threw = FALSE
    /\ BufferIdle /\ FloatIdle /\ Base64Idle /\ ParamIdle /\ IntsIdle /\ MapsIdle
    /\ DebounceIdle /\ SnapIdle

\* the history call of writeToUrl (the popstate event it dispatches makes the
\* subscribed components render again, as Render allows at any time)
HistoryCall(h, newUrl) ==
    IF ~window
    THEN UNCHANGED <<calls, url, prevUrl>>
    ELSE /\ calls' = <<[method |-> IF h.push THEN "pushState" ELSE "replaceState",
                        url |-> newUrl]>>
         /\ url' = newUrl
         /\ prevUrl' = url

\* a component renders
Render ==
    /\ \E i \in DOMAIN instances :
          \E h \in {StateRender(instances[i], url)} :
             /\ instances' =
                   [instances EXCEPT ![i] =
                       [h EXCEPT !.phase = IF @ = "written" THEN "shown" ELSE @,
                                 !.interleaved = @ \/ h.phase = "pending"]]
             /\ rendered' = <<[instance |-> i, value |-> h.value[1]]>>
    /\ UNCHANGED <<lastSet, hookVars>>

\* setValue(newValue) of the last render: encode, lastWrittenRef, then the debounced
\* or the immediate writeToUrl
SetValue ==
    /\ \E i \in DOMAIN instances :
          /\ instances[i].value # <<>> /\ instances[i].sets < MaxSets
          /\ \E newValue \in StateValues(instances[i]) :
                \E r \in {StateEncode(instances[i], newValue)} :
                   /\ ~r.raised
                   /\ lastSet' = <<[instance |-> i, value |-> newValue, encoded |-> r.ret]>>
                   /\ \E h \in {[instances[i] EXCEPT
                                     !.lastWrittenRef = <<[encoded |-> r.ret,
                                                           decoded |-> newValue]>>,
                                     !.set = <<[value |-> newValue, encoded |-> r.ret]>>,
                                     !.sets = @ + 1, !.interleaved = FALSE]} :
                         IF h.debouncedWriteRef # <<>>
                         THEN /\ instances' =
                                    [instances EXCEPT ![i] =
                                        [h EXCEPT !.debouncedWriteRef =
                                                      <<debounced(@[1], r.ret)>>,
                                                  !.phase = "pending"]]
                              /\ UNCHANGED <<url, prevUrl, calls>>
                         ELSE /\ instances' = [instances EXCEPT ![i] =
                                                  [h EXCEPT !.phase = "written"]]
                              /\ HistoryCall(h, StateWrite(h, url, r.ret))
    /\ UNCHANGED <<rendered, hook, window, updates, threw>>

\* the debounce timer of a component expires: timeoutId = null; writeToUrl(...args)
WriteExpires ==
    /\ \E i \in DOMAIN instances :
          /\ instances[i].debouncedWriteRef # <<>>
          /\ \E timer \in instances[i].debouncedWriteRef[1].timers :
                /\ instances' =
                      [instances EXCEPT ![i] =
                          [@ EXCEPT !.debouncedWriteRef = <<expire(@[1], timer)>>,
                                    !.phase = "written"]]
                /\ HistoryCall(instances[i], StateWrite(instances[i], url, timer.args))
    /\ UNCHANGED <<rendered, lastSet, hook, window, updates, threw>>

StateFrame ==
    UNCHANGED <<bufVars, floatVars, b64Vars, paramVars, intVars, mapVars, debVars, snapVars>>

NextState ==
    \/ Render /\ StateFrame
    \/ SetValue /\ StateFrame
    \/ WriteExpires /\ StateFrame

SpecState == InitState /\ [][NextState]_vars

----------------------------------------------------------------------------
(* useUrlStates / useMultiUrlStates of the bundle: one mounted component    *)
(* with the params {a, b}.  The component renders, calls setValues, and its *)
(* debounce timer expires, in any order.  The instance also records, per    *)
(* key, the number of the last setValues call that updated the key (latest) *)
(* and the number of the call whose update writeToUrl last wrote (written). *)

\* useUrlStates({a: p, b: p}, options), p = floatParam({default: 0, encoding:
\* 'string', decimals: 0})
NewUrlStates(debounceMs, push) ==
    [kind |-> "useUrlStates", params |-> <<"a", "b">>, push |-> push,
     debounceMs |-> debounceMs,
     param |-> [type |-> "float", default |-> Dec(FALSE, 0), encoding |-> "string",
                scheme |-> <<>>, decimals |-> <<0>>],
     lastWrittenRef |-> [k \in {"a", "b"} |-> <<>>], debouncedWriteRef |-> <<>>,
     values |-> <<>>, sets |-> 0,
     latest |-> [k \in {"a", "b"} |-> 0], written |-> [k \in {"a", "b"} |-> 0]]

\* useMultiUrlStates({a: p, b: p}, options), p = multiStringParam()
NewMultiUrlStates(debounceMs, push) ==
    [kind |-> "useMultiUrlStates", params |-> <<"a", "b">>, push |-> push,
     debounceMs |-> debounceMs,
     param |-> [type |-> "multiString", init |-> <<>>],
     lastWrittenRef |-> [k \in {"a", "b"} |-> <<>>], debouncedWriteRef |-> <<>>,
     values |-> <<>>, sets |-> 0,
     latest |-> [k \in {"a", "b"} |-> 0], written |-> [k \in {"a", "b"} |-> 0]]

StatesInstances ==
    {<<NewUrlStates(300, FALSE)>>, <<NewMultiUrlStates(300, TRUE)>>,
     <<NewUrlStates(0, FALSE)>>}

\* the values given under a key: 0 and 1.5; [] and ['x']
StatesValues(h) ==
    IF h.kind = "useUrlStates" THEN {Dec(FALSE, 0), Dec(FALSE, 150)}
    ELSE {<<>>, <<MStr(<<"x">>)>>}

\* the objects given to setValues: {a}, {b}, {a, b}, and {c}, a key that params
\* does not have
StatesUpdates(h) ==
    {<<[key |-> k, value |-> v]>> : k \in {"a", "b"}, v \in StatesValues(h)}
    \cup {<<[key |-> "a", value |-> v], [key |-> "b", value |-> w]>> :
             v \in StatesValues(h), w \in StatesValues(h)}
    \cup {<<[key |-> "c", value |-> v]>> : v \in StatesValues(h)}

InitStates ==
    /\ instances \in StatesInstances
    /\ rendered = <<>> /\ lastSet = <<>>
    /\ window = TRUE
    /\ url \in StateUrls /\ prevUrl = url
    /\ hook = Idle /\ updates = <<>> /\ calls = <<>> /\ threw = FALSE
    /\ BufferIdle /\ FloatIdle /\ Base64Idle /\ ParamIdle /\ IntsIdle /\ MapsIdle
    /\ DebounceIdle /\ SnapIdle

\* the entry of encodedUpdates under a key
UpdateOf(encodedUpdates, k) ==
    CHOOSE u \in {encodedUpdates[i] : i \in 1..Len(encodedUpdates)} : u.key = k

\* whether encodedUpdates has a key
HasUpdate(encodedUpdates, k) ==
    \E i \in 1..Len(encodedUpdates) : encodedUpdates[i].key = k

\* writeToUrl(updates): the history call, and the calls whose updates it wrote
WriteStates(h, encodedUpdates) ==
    /\ HistoryCall(h, writeStatesToUrl(h, url, encodedUpdates))
    /\ instances' =
          <<[h EXCEPT !.written =
                 [k \in DOMAIN h.written |->
                     IF HasUpdate(encodedUpdates, k) THEN UpdateOf(encodedUpdates, k).call
                     ELSE h.written[k]]]>>

\* the component renders
RenderStates ==
    /\ \E h \in {StatesRender(instances[1], url)} :
          /\ instances' = <<h>>
          /\ rendered' = <<[instance |-> 1, value |-> h.values[1]]>>
    /\ UNCHANGED <<lastSet, hookVars>>

\* setValues(updates) of the last render: encode each known key, lastWrittenRef, then
\* the debounced or the immediate writeToUrl(encodedUpdates)
SetValuesStates ==
    /\ instances[1].values # <<>> /\ instances[1].sets < MaxSets
    /\ \E given \in StatesUpdates(instances[1]) :
          \E encodedUpdates \in {EncodedUpdates(instances[1], given, instances[1].sets + 1)} :
             \E h \in {[instances[1] EXCEPT
                           !.sets = @ + 1,
                           !.lastWrittenRef =
                               [k \in DOMAIN @ |->
                                   IF HasUpdate(encodedUpdates, k)
                                   THEN <<[encoded |-> UpdateOf(encodedUpdates, k).encoded,
                                           decoded |-> UpdateOf(encodedUpdates, k).decoded]>>
                                   ELSE @[k]],
                           !.latest =
                               [k \in DOMAIN @ |->
                                   IF HasUpdate(encodedUpdates, k)
                                   THEN instances[1].sets + 1 ELSE @[k]]]} :
                /\ updates' = given
                /\ lastSet' = <<[instance |-> 1, call |-> h.sets]>>
                /\ IF h.debouncedWriteRef # <<>>
                   THEN /\ instances' =
                              <<[h EXCEPT !.debouncedWriteRef =
                                              <<debounced(@[1], encodedUpdates)>>]>>
                        /\ UNCHANGED <<url, prevUrl, calls>>
                   ELSE WriteStates(h, encodedUpdates)
    /\ UNCHANGED <<rendered, hook, window, threw>>

\* the debounce timer expires: timeoutId = null; writeToUrl(...args)
WriteStatesExpires ==
    /\ instances[1].debouncedWriteRef # <<>>
    /\ \E timer \in instances[1].debouncedWriteRef[1].timers :
          WriteStates([instances[1] EXCEPT !.debouncedWriteRef = <<expire(@[1], timer)>>],
                      timer.args)
    /\ UNCHANGED <<rendered, lastSet, hook, window, updates, threw>>

NextStates ==
    \/ RenderStates /\ StateFrame
    \/ SetValuesStates /\ StateFrame
    \/ WriteStatesExpires /\ StateFrame

SpecStates == InitStates /\ [][NextStates]_vars

\* a timer that setTimeout has set and clearTimeout has not cleared runs its callback
FairSpecStates == SpecStates /\ WF_vars(WriteStatesExpires /\ StateFrame)

----------------------------------------------------------------------------
(* The BitBuffer's integer fields as a state machine: a buffer is           *)
(* constructed, encodeInt and encodeBigInt each write one field into it     *)
(* (in either order, at the cursor or after a seek), and the bits are read  *)
(* with seek / decodeInt / decodeBigInt / toBytes.  seek takes any target,  *)
(* within the storage or past it.  An unsigned value is held as the set of  *)
(* the positions of its 1 bits; encodeInt is given the 32-bit integer that  *)
(* the bitwise operators make of it.                                        *)

\* encodeInt(v, numBits): every width with all its bits set, and 0101...01 for some
IntInputs ==
    {[v |-> 0..(w - 1), numBits |-> w] : w \in 1..32}
    \cup {[v |-> {i \in 0..(w - 1) : i % 2 = 0}, numBits |-> w] : w \in {5, 16, 31, 32}}

\* encodeBigInt(v, numBits): 0b101 in 3 bits, and 52 bits all set
BigInputs == {[v |-> {0, 2}, numBits |-> 3], [v |-> 0..51, numBits |-> 52]}

\* seek(pos): byte-aligned and not
IntSeekTargets == {0, 3, 13}

\* the widths read: a byte, and the width of the field written
WidthsOf(field) == {8} \cup {field[i].numBits : i \in DOMAIN field}

InitInts ==
    /\ \E numBytes \in 0..(MaxPrealloc + 1) :
          /\ buf = NewBitBuffer(numBytes).buf
          /\ byteOffset = 0 /\ bitOffset = 0 /\ end = 0
          /\ pre = NewBitBuffer(numBytes)
    /\ scheme = Idle /\ vals = <<>> /\ thrown = FALSE /\ out = <<>>
    /\ encoded = FALSE /\ start = 0 /\ last = "new"
    /\ IntsIdle /\ HooksIdle /\ MapsIdle /\ ReactIdle
    /\ FloatIdle /\ Base64Idle /\ ParamIdle

\* buf.seek(pos)
SeekTo ==
    /\ \E pos \in IntSeekTargets \cup {num[i].at : i \in DOMAIN num}
                                 \cup {big[i].at : i \in DOMAIN big} :
          /\ pos # totalBitOffset(This)
          /\ SetThis(seek(This, pos))
          \* pre is kept for reads and writes: the next one finds the buffer as seek leaves it
          /\ pre' = seek(This, pos)
    /\ last' = "seek"
    /\ got' = <<>> /\ trimmed' = <<>>
    /\ UNCHANGED <<num, big, high, lastWrite>>

\* buf.encodeInt(v, numBits)
EncodeInt ==
    /\ num = <<>> /\ got = <<>> /\ trimmed = <<>>
    /\ \E f \in IntInputs :
          /\ SetThis(encodeInt(This, I32Val(f.v), f.numBits))
          /\ num' = <<[v |-> f.v, numBits |-> f.numBits, at |-> totalBitOffset(This),
                       fresh |-> totalBitOffset(This) >= end]>>
          /\ high' = Max(high, totalBitOffset(This) + f.numBits)
    /\ pre' = This /\ last' = "encodeInt" /\ lastWrite' = "encodeInt"
    /\ got' = <<>> /\ trimmed' = <<>>
    /\ UNCHANGED big

\* buf.decodeInt(numBits)
DecodeInt ==
    /\ got = <<>> /\ trimmed = <<>>
    /\ \E numBits \in WidthsOf(num) :
          \E r \in {decodeInt(This, numBits)} :
             /\ SetThis(r.b)
             /\ got' = <<[neg |-> r.n < 0, bits |-> I32Bits(r.n), numBits |-> numBits]>>
    /\ pre' = This /\ last' = "decodeInt"
    /\ trimmed' = <<>>
    /\ UNCHANGED <<num, big, high, lastWrite>>

\* buf.encodeBigInt(v, numBits)
EncodeBigInt ==
    /\ big = <<>> /\ got = <<>> /\ trimmed = <<>>
    /\ \E f \in BigInputs :
          /\ SetThis(encodeBigInt(This, f.v, f.numBits))
          /\ big' = <<[v |-> f.v, numBits |-> f.numBits, at |-> totalBitOffset(This),
                       fresh |-> totalBitOffset(This) >= end]>>
          /\ high' = Max(high, totalBitOffset(This) + f.numBits)
    /\ pre' = This /\ last' = "encodeBigInt" /\ lastWrite' = "encodeBigInt"
    /\ got' = <<>> /\ trimmed' = <<>>
    /\ UNCHANGED num

\* buf.decodeBigInt(numBits)
DecodeBigInt ==
    /\ got = <<>> /\ trimmed = <<>>
    /\ \E numBits \in WidthsOf(big) :
          \E r \in {decodeBigInt(This, numBits)} :
             /\ SetThis(r.b)
             /\ got' = <<[neg |-> FALSE, bits |-> r.n, numBits |-> numBits]>>
    /\ pre' = This /\ last' = "decodeBigInt"
    /\ trimmed' = <<>>
    /\ UNCHANGED <<num, big, high, lastWrite>>

\* buf.toBytes()
ToBytes ==
    /\ trimmed = <<>>
    /\ trimmed' = <<toBytes(This)>>
    /\ pre' = This /\ last' = "toBytes"
    /\ UNCHANGED <<buf, byteOffset, bitOffset, end, num, big, got, high, lastWrite>>

IntFrame ==
    UNCHANGED <<scheme, vals, thrown, out, encoded, start, floatVars, b64Vars, paramVars,
                hookVars, mapVars, reactVars>>

NextInts ==
    \/ SeekTo /\ IntFrame
    \/ EncodeInt /\ IntFrame
    \/ DecodeInt /\ IntFrame
    \/ EncodeBigInt /\ IntFrame
    \/ DecodeBigInt /\ IntFrame
    \/ ToBytes /\ IntFrame

SpecInts == InitInts /\ [][NextInts]_vars

----------------------------------------------------------------------------
(* Exact arithmetic for stating the claims: magnitudes of doubles as        *)
(* BigInts scaled by a common power of two.                                 *)

RECURSIVE BigAddFrom(_, _, _, _, _)
BigAddFrom(a, b, i, carry, top) ==
    IF i > top THEN (IF carry = 1 THEN {i} ELSE {})
    ELSE LET t == (IF i \in a THEN 1 ELSE 0) + (IF i \in b THEN 1 ELSE 0) + carry
         IN (IF t % 2 = 1 THEN {i} ELSE {}) \cup BigAddFrom(a, b, i + 1, t \div 2, top)

BigTop(s) == IF s = {} THEN 0 ELSE BitLength(s)

BigAdd(a, b) == BigAddFrom(a, b, 0, 0, Max(BigTop(a), BigTop(b)))

BigLeq(a, b) ==
    LET d == (a \ b) \cup (b \ a)
    IN d = {} \/ (CHOOSE i \in d : \A j \in d : j <= i) \in b

\* the weight of a decomposed double's lowest mantissa bit, as a power of two
LowExp(f) == (IF f.exp = -1023 THEN -1022 ELSE f.exp) - 52

IsZero(f) == f.exp = -1023 /\ f.mant = {}

\* |x| / 2^base as a BigInt, for a decomposed finite double f with LowExp(f) >= base
Magnitude(f, base) ==
    IF IsZero(f) THEN {}
    ELSE BigShl(IF f.exp = -1023 THEN f.mant ELSE f.mant \cup {52}, LowExp(f) - base)

\* | |x| - |y| | * 2^k <= |x|, for decomposed finite doubles
WithinRelative(x, y, k) ==
    LET base == IF IsZero(x) THEN LowExp(y)
                ELSE IF IsZero(y) THEN LowExp(x)
                ELSE Min(LowExp(x), LowExp(y))
        a == Magnitude(x, base)
        b == Magnitude(y, base)
    IN /\ BigLeq(BigShl(a, k), BigAdd(a, BigShl(b, k)))
       /\ BigLeq(BigShl(b, k), BigAdd(a, BigShl(a, k)))

----------------------------------------------------------------------------
(* Claims about encodeFixedPoints / decodeFixedPoints (SpecBuffer) *)

\* the batch's shared reference exponent: max own exponent + 1
RefExp == MaxOf([i \in 1..Len(vals) |-> toFloat(vals[i]).exp + 1])

\* the last call decoded, from the bit where encodeFixedPoints began, the values written
ReadBack ==
    /\ last = "decodeFixedPoints"
    /\ totalBitOffset(pre) = start
    /\ Len(out) = Len(vals)

Scheme52 == [expBits |-> 5, mantBits |-> 52]

\* C1, as stated: with scheme {5, 52}, a finite double whose unbiased exponent e has
\* |e| < 16 is encoded without error and decoded to the same 64 bits.
C1_ExactRoundTrip52 ==
    (scheme = Scheme52 /\ Len(vals) = 1 /\ toFloat(vals[1]).exp \in -15..15)
        => /\ last = "encodeFixedPoints" => ~thrown
           /\ ReadBack => out = vals

\* C1, amended: with scheme {5, 52}, a finite double whose unbiased exponent e has
\* -16 < e < 15 and whose lowest mantissa bit is 0 is encoded without error and decoded
\* to the same 64 bits.
C1_ExactRoundTrip52Even ==
    (scheme = Scheme52 /\ Len(vals) = 1 /\ toFloat(vals[1]).exp \in -15..14
                       /\ 0 \notin toFloat(vals[1]).mant)
        => /\ last = "encodeFixedPoints" => ~thrown
           /\ ReadBack => out = vals

C1_Witness ==
    /\ scheme = Scheme52 /\ ReadBack
    /\ vals = <<Dbl(FALSE, 14 + 1023, {1, 30, 51})>>
    /\ out = vals

\* C2: for a preset scheme {5, m} and a finite non-zero double x whose reference
\* exponent fits the 5 bits, the decoded single value is within relative error 2^-m of x,
\* rounding carries included.
C2_RelativeError ==
    (/\ ReadBack /\ Len(vals) = 1
     /\ \E i \in DOMAIN precisionSchemes : scheme = precisionSchemes[i]
     /\ RefExp \in -16..15)
        => /\ toFloat(out[1]).neg = toFloat(vals[1]).neg
           /\ WithinRelative(toFloat(vals[1]), toFloat(out[1]), scheme.mantBits)

\* C3: encodeFixedPoints throws whenever the reference exponent lies outside
\* [-(2^(expBits-1)), 2^(expBits-1) - 1], on the low side as on the high side.
C3_ThrowsOutsideRange ==
    (last = "encodeFixedPoints"
        /\ RefExp \notin (0 - pow2[scheme.expBits - 1])..(pow2[scheme.expBits - 1] - 1))
        => thrown

\* C4: when a value of the batch has unbiased exponent >= 2^(expBits-1), encodeFixedPoints
\* throws and leaves storage, cursor and end exactly as they were before the call.
C4_ThrowWritesNothing ==
    (last = "encodeFixedPoints"
        /\ \E i \in 1..Len(vals) : toFloat(vals[i]).exp >= pow2[scheme.expBits - 1])
        => thrown /\ This = pre

C4_Witness ==
    /\ last = "encodeFixedPoints" /\ thrown /\ This = pre
    /\ \E i \in 1..Len(vals) : toFloat(vals[i]).exp >= pow2[scheme.expBits - 1]
    /\ totalBitOffset(pre) = 3 /\ Len(pre.buf) = 1

\* bit pos of the stored bytes, most significant bit of each byte first
StoredBit(pos) == (ByteAt(buf, pos \div 8) \div pow2[7 - (pos % 8)]) % 2

\* the bits [pos, pos + n) of the stored bytes as a set of bit positions (a BigInt)
StoredField(pos, n) == {i \in 0..(n - 1) : StoredBit(pos + n - 1 - i) = 1}

\* C10: a successful encodeFixedPoints of N values on a fresh buffer writes exactly
\* expBits + N*(1+mantBits) bits: the biased shared exponent, then per value in input
\* order 1 sign bit and the mantBits bits of its fixed-point mantissa; toBytes() has
\* ceil(totalBits/8) bytes.
C10_WireLayout ==
    (last = "encodeFixedPoints" /\ ~thrown /\ pre.end = 0 /\ totalBitOffset(pre) = 0)
        => LET n == Len(vals)
               e == scheme.expBits
               m == scheme.mantBits
           IN /\ end = e + n * (1 + m)
              /\ Len(toBytes(This)) = (end + 7) \div 8
              /\ RefExp + pow2[e - 1] >= 0
              /\ StoredField(0, e) = NatBits(RefExp + pow2[e - 1])
              /\ \A i \in 1..n :
                    /\ StoredBit(e + (i - 1) * (1 + m)) = (IF toFloat(vals[i]).neg THEN 1 ELSE 0)
                    /\ StoredField(e + (i - 1) * (1 + m) + 1, m)
                           = toFixedPoint(toFloat(vals[i]), m, <<RefExp>>).mant

\* | |x| - |y| | <= 2^t, for decomposed finite doubles
WithinAbsolute(x, y, t) ==
    LET lows == {t} \cup (IF IsZero(x) THEN {} ELSE {LowExp(x)})
                    \cup (IF IsZero(y) THEN {} ELSE {LowExp(y)})
        base == CHOOSE l \in lows : \A k \in lows : l <= k
        a == Magnitude(x, base)
        b == Magnitude(y, base)
    IN /\ BigLeq(a, BigAdd(b, {t - base}))
       /\ BigLeq(b, BigAdd(a, {t - base}))

\* the reference exponent fits the scheme's exponent field
RefExpInRange ==
    RefExp \in (0 - pow2[scheme.expBits - 1])..(pow2[scheme.expBits - 1] - 1)

\* C11: for a batch whose reference exponent E = max own exponent + 1 is in range,
\* decodeFixedPoints(count) returns the values in input order with their signs, each
\* within 2^(E - mantBits) of its original.
C11_BatchTolerance ==
    (ReadBack /\ RefExpInRange)
        => \A i \in 1..Len(vals) :
              /\ toFloat(out[i]).neg = toFloat(vals[i]).neg
              /\ WithinAbsolute(toFloat(vals[i]), toFloat(out[i]), RefExp - scheme.mantBits)

----------------------------------------------------------------------------
(* Claims about base64 (SpecBase64) and toFloat / fromFloat (SpecFloat) *)

\* C5: base64Decode(base64Encode(b)) equals b, byte for byte, for every byte array b
\* of every length.
C5_Base64RoundTrip == bytesOut # <<>> => bytesOut[1] = bytesIn

C5_Witness ==
    /\ bytesOut = <<bytesIn>>
    /\ bytesIn = <<255, 0, 128, 127>>
    /\ Len(str[1]) = 6

\* C9: fromFloat(toFloat(x)) has the 64 bits of x for every finite double x, where
\* toFloat gives neg = top bit, exp = 11-bit exponent field - 1023, mant = low 52 bits.
C9_FloatRoundTrip ==
    /\ fd # <<>> =>
          /\ fd[1].neg = (63 \in fx)
          /\ fd[1].exp = BitsVal({i - 52 : i \in fx \cap (52..62)}) - 1023
          /\ fd[1].mant = fx \cap (0..51)
    /\ fy # <<>> => fy[1] = fx

C9_Witness ==
    /\ fy = <<fx>>
    /\ fx = Dbl(TRUE, 0, 0..51)
    /\ fd[1] = [neg |-> TRUE, exp |-> -1023, mant |-> 0..51]

----------------------------------------------------------------------------
(* The Params: defaults, malformed input, exceptions *)

\* the last call returned, and returned the Param's configured default
ReturnedDefault == ~raised /\ ret = param.default

\* the Params the claim is about: floatParam, and pointParam with a default point
HasDefault(p) == p.type = "float" \/ (p.type = "point" /\ ~p.default.null)

\* the default, or a coordinate of the default point, is NaN
DefaultHasNaN(p) ==
    IF p.type = "float"
    THEN IF p.encoding = "string" THEN p.default.nan ELSE IsNaN(p.default.f64)
    ELSE IF p.encoding = "string" THEN p.default.x.nan \/ p.default.y.nan
    ELSE IsNaN(p.default.x.f64) \/ IsNaN(p.default.y.f64)

\* C6, as stated: for floatParam in every encoding mode and for pointParam with a
\* default point, encode(default) returns undefined, and decode(undefined) and
\* decode("") return the configured default.
C6_DefaultIsAbsent ==
    HasDefault(param) =>
       /\ (op = "encode" /\ arg = param.default) => (~raised /\ ret = Undefined)
       /\ (op = "decode" /\ Absent(arg)) => ReturnedDefault

\* C6, amended: for floatParam in every encoding mode and for pointParam with a
\* default point, encode(default) returns undefined when the default (each coordinate
\* of the default point) is not NaN, and decode(undefined) and decode("") return the
\* configured default, whatever it is.
C6_NonNaNDefaultIsAbsent ==
    HasDefault(param) =>
       /\ (op = "encode" /\ arg = param.default /\ ~DefaultHasNaN(param))
             => (~raised /\ ret = Undefined)
       /\ (op = "decode" /\ Absent(arg)) => ReturnedDefault

C6_Witness ==
    /\ param.type = "point" /\ ~param.default.null /\ ~DefaultHasNaN(param)
    /\ op = "encode" /\ arg = param.default
    /\ ~raised /\ ret = Undefined

\* a character that is neither of the base64 alphabet nor padding
ForeignToBase64(s) ==
    \E i \in 1..Len(s) : s[i] # "=" /\ \A k \in 1..64 : BASE64_CHARS[k] # s[i]

\* a character that no decimal numeral or pair of numerals contains
ForeignToDecimal(s) ==
    \E i \in 1..Len(s) : ~IsDigit(s[i]) /\ s[i] \notin {".", "-", " "}

\* the bits a well-formed encoding holds: 64 in the lossless mode, otherwise
\* expBits + N * (1 + mantBits)
NeededBits(p) ==
    IF p.type = "point"
    THEN resolvePrecision(p.scheme).expBits + 2 * (1 + resolvePrecision(p.scheme).mantBits)
    ELSE IF p.scheme = <<>> THEN 64
    ELSE p.scheme[1].expBits + 1 + p.scheme[1].mantBits

Malformed(p, s) ==
    IF p.encoding = "base64"
    THEN ForeignToBase64(s) \/ 6 * Len(StripPadding(s)) < NeededBits(p)
    ELSE ForeignToDecimal(s)

\* C7: for floatParam in every encoding mode and for pointParam, decode of a malformed
\* string (one with characters outside the alphabet, or too short to hold the bits of
\* the scheme or the 8 bytes of the lossless mode) returns the configured default.
C7_MalformedGivesDefault ==
    (op = "decode" /\ param.type # "binary" /\ ~Absent(arg) /\ Malformed(param, arg.s))
       => ReturnedDefault

\* C8: decode of a floatParam in any mode, of a pointParam and of a binaryParam raises
\* for no input, string or undefined: what is thrown inside it is caught and turned
\* into a returned value.
C8_DecodeNeverRaises == op = "decode" => ~raised

C8_Witness ==
    /\ op = "decode" /\ caught /\ ~raised
    /\ param.type = "float" /\ ~Absent(arg)
    /\ ret = param.default

\* the lossless binary mode: floatParam({encoding: 'base64'}) without a precision
Lossless(p) == p.type = "float" /\ p.encoding = "base64" /\ p.scheme = <<>>

\* neither NaN nor an infinity
Finite(x) == ~((52..62) \subseteq x)

\* the 8 bytes of the IEEE-754 pattern, most significant first
BigEndianBytes(x) ==
    [k \in 1..8 |-> BitsVal({j - (64 - 8 * k) : j \in x \cap ((64 - 8 * k)..(71 - 8 * k))})]

\* C12: in the lossless mode, for every finite x that is not the default, encode(x) is
\* the base64 text of the 8 big-endian bytes of x (11 characters), and
\* decode(encode(x)) = x.
C12_LosslessRoundTrip ==
    /\ (/\ Lossless(param) /\ op = "encode"
        /\ Finite(arg.f64) /\ ~StrictEq(arg.f64, param.default.f64))
          => /\ ~raised
             /\ ret = Str(base64Encode(BigEndianBytes(arg.f64)))
             /\ Len(ret.s) = 11
    /\ (/\ Lossless(param) /\ op = "decode" /\ origin # Idle
        /\ Finite(origin[1].f64) /\ ~StrictEq(origin[1].f64, param.default.f64))
          => ~raised /\ ret = origin[1]

\* -2.5 was encoded, read back and returned
C12_Witness ==
    /\ Lossless(param) /\ op = "decode"
    /\ origin = <<F64(Dbl(TRUE, 1024, {50}))>>
    /\ Len(arg.s) = 11
    /\ ~raised /\ ret = origin[1]

----------------------------------------------------------------------------
(* Claims about the BitBuffer's integer fields (SpecInts) *)

\* decodeInt has just read, from the field's first bit and with the field's width, a
\* field that encodeInt wrote on bits not written before and no write has touched since
IntReadBack ==
    /\ last = "decodeInt" /\ num # <<>> /\ lastWrite = "encodeInt"
    /\ num[1].fresh
    /\ totalBitOffset(pre) = num[1].at
    /\ got[1].numBits = num[1].numBits

\* C13: for every width 1..32, every unsigned v < 2^numBits and every start offset,
\* encodeInt(v, numBits), seek back to the start, decodeInt(numBits) returns the
\* unsigned value v and leaves the cursor numBits past the start.
C13_IntRoundTrip ==
    IntReadBack
        => /\ ~got[1].neg
           /\ got[1].bits = num[1].v
           /\ totalBitOffset(This) = num[1].at + num[1].numBits

\* the same for the widths 1..31
C13_IntRoundTrip31 ==
    (IntReadBack /\ num[1].numBits <= 31)
        => /\ ~got[1].neg
           /\ got[1].bits = num[1].v
           /\ totalBitOffset(This) = num[1].at + num[1].numBits

\* C14: after any sequence of BitBuffer operations the cursor bit position
\* byteOffset * 8 + bitOffset is at most storage.length * 8.
C14_CursorWithinStorage == totalBitOffset(This) <= 8 * Len(buf)

\* C15: end equals the furthest bit position ever written: it never decreases, and
\* reads and seeks do not change it; toBytes() returns exactly the first ceil(end / 8)
\* stored bytes (each as the byte a Uint8Array holds), dropping the preallocated or
\* never-written bytes behind them.
C15_EndIsHighWaterMark ==
    /\ end = high
    /\ last \in {"encodeInt", "encodeBigInt"} => end >= pre.end
    /\ last \in {"seek", "decodeInt", "decodeBigInt", "toBytes"} => end = pre.end
    /\ last = "toBytes" =>
          /\ Len(trimmed[1]) = (end + 7) \div 8
          /\ Len(trimmed[1]) <= Len(buf)
          /\ \A i \in 1..Len(trimmed[1]) : trimmed[1][i] = buf[i] % 256

\* toBytes of a preallocated buffer after a field was written, the cursor moved back
\* and another field written below the mark: end stays mid-byte at the mark, the bytes
\* up to it are returned and the preallocated byte behind them is dropped
C15_Witness ==
    /\ last = "toBytes" /\ num # <<>> /\ big # <<>>
    /\ end % 8 # 0 /\ totalBitOffset(This) < end
    /\ lastWrite = "encodeInt" /\ num[1].at < big[1].at
    /\ Len(trimmed[1]) = (end + 7) \div 8
    /\ trimmed[1] # <<>> /\ Len(trimmed[1]) < Len(buf)

----------------------------------------------------------------------------
(* Claims about base64Encode (SpecBase64) and base64Decode of any text (SpecText) *)

\* C16: base64Encode of n bytes emits only characters of the URL-safe alphabet
\* (never "=", "+" or "/") and exactly 4 * floor(n / 3) + (0, 2 or 3) of them, for
\* n mod 3 = 0, 1 or 2.
C16_EncodedLength ==
    str # <<>> =>
        /\ \A i \in 1..Len(str[1]) : \E k \in 1..64 : str[1][i] = BASE64_CHARS[k]
        /\ Len(str[1]) = 4 * (Len(bytesIn) \div 3)
                           + (CASE Len(bytesIn) % 3 = 0 -> 0
                                [] Len(bytesIn) % 3 = 1 -> 2
                                [] Len(bytesIn) % 3 = 2 -> 3)

\* two bytes were encoded to three characters
C16_Witness ==
    /\ bytesIn = <<255, 255>>
    /\ str = << <<"_", "_", "8">> >>

\* the text without its trailing "=" characters
Unpadded(s) ==
    LET keep == {k \in 0..Len(s) : \A i \in (k + 1)..Len(s) : s[i] = "="}
    IN SubSeq(s, 1, CHOOSE k \in keep : \A j \in keep : k <= j)

\* the text with every character outside the alphabet replaced by "A"
ForeignAsA(s) ==
    [i \in 1..Len(s) |-> IF \E k \in 1..64 : s[i] = BASE64_CHARS[k] THEN s[i] ELSE "A"]

\* C17: base64Decode is total: it accepts a text of any length, multiple of 4 or not,
\* ignores trailing "=" and decodes every character outside the alphabet as "A"
\* (value 0); it has no error path.
C17_DecodeTotal ==
    (bytesOut # <<>> /\ bytesIn = <<>>) =>
        LET s == Unpadded(str[1])
        IN /\ \A i \in 1..Len(bytesOut[1]) : bytesOut[1][i] \in 0..255
           /\ Len(bytesOut[1]) = 3 * (Len(s) \div 4)
                                   + (CASE Len(s) % 4 = 0 -> 0
                                        [] Len(s) % 4 \in {1, 2} -> 1
                                        [] Len(s) % 4 = 3 -> 2)
           /\ bytesOut[1] = base64Decode(s)
           /\ bytesOut[1] = base64Decode(ForeignAsA(s))

\* "Q/_==" was decoded: the padding is dropped, "/" counts as "A", two bytes come out
C17_Witness ==
    /\ str = << <<"Q", "/", "_", "=", "=">> >>
    /\ bytesOut = << <<64, 15>> >>

----------------------------------------------------------------------------
(* Claims about the multi-value Params (SpecMulti) *)

HasNaN(a) == \E i \in 1..Len(a) : "nan" \in DOMAIN a[i] /\ a[i].nan

\* C18: for multiStringParam, multiIntParam and multiFloatParam with any default init,
\* encode(init) returns the empty array and decode([]) returns init.
C18_DefaultIsEmpty ==
    /\ (op = "encode" /\ arg = param.init) => ret = <<>>
    /\ (op = "decode" /\ arg = <<>>) => ret = param.init

\* C18 with the NaN that === tells from itself set apart: encode(init) returns the
\* empty array for every init that holds no NaN, and decode([]) returns init, whatever
\* it is.
C18_NonNaNDefaultIsEmpty ==
    /\ (op = "encode" /\ arg = param.init /\ ~HasNaN(param.init)) => ret = <<>>
    /\ (op = "decode" /\ arg = <<>>) => ret = param.init

\* multiFloatParam([1.5, -2.5]).encode([1.5, -2.5]) returned []
C18_Witness ==
    /\ param = [type |-> "multiFloat", init |-> <<Dec(FALSE, 150), Dec(TRUE, 250)>>]
    /\ op = "encode" /\ arg = param.init
    /\ ret = <<>>

\* C19: for multiStringParam and multiIntParam, every default init and every array v
\* (the empty array and negative integers included), decode(encode(v)) equals v.
C19_MultiRoundTrip ==
    (op = "decode" /\ origin # Idle /\ param.type \in {"multiString", "multiInt"})
        => ret = origin[1]

\* the same for the arrays v that are not empty
C19_NonEmptyRoundTrip ==
    (/\ op = "decode" /\ origin # Idle /\ param.type \in {"multiString", "multiInt"}
     /\ origin[1] # <<>>)
        => ret = origin[1]

----------------------------------------------------------------------------
(* Claims about setValues (SpecHooks) *)

\* setValues has been called in a browser
SetValuesCalled == window /\ (updates # <<>> \/ calls # <<>> \/ threw)

\* what the update [key, value] of a declared key should leave under the key
Expected(h, e) ==
    IF h.kind = "single"
    THEN LET r == ParamEncode(h.params[e.key], e.value)
         IN IF r.raised \/ ~r.ret.def THEN <<>> ELSE <<r.ret.s>>
    ELSE LET enc == MultiEncodeOf(h.params[e.key], e.value)
         IN [i \in 1..Len(enc) |-> enc[i].str]

\* C20: one call of setValues(updates) performs exactly one history.pushState or
\* history.replaceState call (pushState iff push is true); the URL written reflects
\* every update whose key is declared in params, and keys not declared are ignored.
C20_OneHistoryCall ==
    SetValuesCalled =>
        /\ ~threw
        /\ Len(calls) = 1
        /\ calls[1].method = (IF hook.push THEN "pushState" ELSE "replaceState")
        /\ \A i \in 1..Len(updates) :
              IF updates[i].key \in DOMAIN hook.params
              THEN getAll(calls[1].url, updates[i].key) = Expected(hook, updates[i])
              ELSE getAll(calls[1].url, updates[i].key) = getAll(prevUrl, updates[i].key)

\* the part that holds: never more than one history call, of the method that push
\* selects, and exactly one when setValues returns
C20_AtMostOneHistoryCall ==
    SetValuesCalled =>
        /\ Len(calls) = (IF threw THEN 0 ELSE 1)
        /\ \A i \in 1..Len(calls) :
              calls[i].method = (IF hook.push THEN "pushState" ELSE "replaceState")

----------------------------------------------------------------------------
(* Claims about the bits that encodeInt / encodeBigInt leave alone (SpecInts) *)

\* bit pos of a byte array as toBytes() hands it out (each element as the byte a
\* Uint8Array holds), most significant bit of each byte first; 0 past the storage
BitOf(bytes, pos) == ((ByteAt(bytes, pos \div 8) % 256) \div pow2[7 - (pos % 8)]) % 2

\* the field that the last call wrote
LastField == IF last = "encodeInt" THEN num[1] ELSE big[1]

\* no bit outside [at, at + numBits) differs from what it was before the last call
OutsideUnchanged ==
    \A pos \in 0..(8 * Len(buf) - 1) :
        (pos < LastField.at \/ pos >= LastField.at + LastField.numBits)
            => BitOf(buf, pos) = BitOf(pre.buf, pos)

\* C21: encodeInt and encodeBigInt writing numBits bits at cursor position c change
\* no storage bit outside [c, c + numBits): bits written earlier in the same byte and
\* in neighbouring bytes are preserved for every width (up to 32 for encodeInt, up to
\* 52 for encodeBigInt), value and bit offset.
C21_WritesOnlyItsBits ==
    last \in {"encodeInt", "encodeBigInt"} => OutsideUnchanged

\* the same for encodeBigInt and for encodeInt of the widths 1..31
C21_WritesOnlyItsBits31 ==
    (last = "encodeBigInt" \/ (last = "encodeInt" /\ num[1].numBits <= 31))
        => OutsideUnchanged

----------------------------------------------------------------------------
(* Claims about serializeMultiParams / parseMultiParams (SpecMaps) *)

\* the same keys, and under every key the same values in the same order
SameMap(p, q) ==
    /\ KeysOf(p) = KeysOf(q)
    /\ \A key \in KeysOf(p) : ValuesUnder(p, key) = ValuesUnder(q, key)

AllNonEmpty(obj) == \A i \in 1..Len(obj) : obj[i].values # <<>>

\* '' occurs in no list except once, as the last value, and not under the key ''
EmptyOnlyLast(obj) ==
    \A i \in 1..Len(obj) :
        \A k \in 1..Len(obj[i].values) :
            obj[i].values[k] = <<>> => (k = Len(obj[i].values) /\ obj[i].key # "")

\* C30: for every parameter map p whose value lists are all non-empty,
\* parseMultiParams(serializeMultiParams(p)) equals p: every key keeps the same list
\* of values in the same order, including empty-string (valueless) entries and
\* repeated values.
C30_MapRoundTrip ==
    (reparsed # <<>> /\ AllNonEmpty(paramMap)) => SameMap(reparsed[1], paramMap)

\* the same for the maps in which '' is only ever the last value of a list
C30_MapRoundTripEmptyLast ==
    (reparsed # <<>> /\ AllNonEmpty(paramMap) /\ EmptyOnlyLast(paramMap))
        => SameMap(reparsed[1], paramMap)

----------------------------------------------------------------------------
(* Claims about zero in the lossy encodings (SpecParam) *)

\* a base64 floatParam with exp / mant or precision given
Lossy(p) == p.type = "float" /\ p.encoding = "base64" /\ p.scheme # <<>>

\* decode has just been given what encode returned for the value v
ReadBackOf(v) == op = "decode" /\ origin = <<v>>

\* C25: for a lossy base64 floatParam (exp/mant or precision given) whose default is
\* non-zero, decode(encode(0)) is 0; and for pointParam in base64 mode, a point with
\* x = 0 and y = 0 decodes to {x: 0, y: 0}.
C25_ZeroRoundTrip ==
    /\ (Lossy(param) /\ ~StrictEq(param.default.f64, Zero.f64) /\ ReadBackOf(Zero))
          => ~raised /\ ret = Zero
    /\ (param.type = "point" /\ param.encoding = "base64" /\ ReadBackOf(Point(Zero, Zero)))
          => ~raised /\ ret = Point(Zero, Zero)

\* what happens instead: 0 comes back as 2.0 (0x4000000000000000)
C25_ZeroComesBackAsTwo ==
    LET Two == F64(Dbl(FALSE, 1024, {}))
    IN /\ (Lossy(param) /\ ~StrictEq(param.default.f64, Zero.f64) /\ ReadBackOf(Zero))
             => ~raised /\ ret = Two
       /\ (param.type = "point" /\ param.encoding = "base64" /\ ReadBackOf(Point(Zero, Zero)))
             => ~raised /\ ret = Point(Two, Two)

----------------------------------------------------------------------------
(* Claims about debounce (SpecDebounce) *)

\* C29: for debounce(fn, ms), after any sequence of calls, timer expirations and
\* cancel(): at most one invocation of fn is pending at any time, a pending invocation
\* carries the arguments of the most recent call, fn is never invoked with the
\* arguments of a superseded call (every run of fn is that of the most recent call at
\* the time), and after cancel() fn is not invoked until debounced is called again.
C29_DebounceSafety ==
    /\ Cardinality(timers) <= 1
    /\ \A timer \in timers :
          /\ timer.id = timeoutId /\ timer.id = Len(called)
          /\ timer.args = called[Len(called)]
    /\ \A i \in 1..Len(fired) :
          /\ fired[i].call = fired[i].calls
          /\ fired[i].args = called[fired[i].call]
          /\ ~fired[i].cancelled
    /\ cancelled => timers = {}

\* a call was superseded by another with other arguments, whose timer expired and ran
\* fn once; a third call was then cancelled
C29_Witness ==
    /\ Len(called) = 3 /\ called[1] # called[2]
    /\ Len(fired) = 1 /\ fired[1].args = called[2] /\ fired[1].call = 2
    /\ cancelled /\ timers = {} /\ timeoutId = 0

----------------------------------------------------------------------------
(* Claims about getSnapshot (SpecSnapshot) *)

\* C23: getSnapshot(strategy) returns the reference-identical snapshot object on
\* consecutive calls while strategy.getRaw() is unchanged, returns a snapshot equal to
\* strategy.parse() of the current location in every state (never a stale one after
\* the raw string changed), and keeps the caches of the query and hash strategies
\* independent: each holds what the last call for its own strategy saw.
C23_SnapshotCache ==
    /\ gotSnap # <<>> =>
          /\ gotSnap[1].snapshot.value
                 = StrategyParse(gotSnap[1].strategy, gotSnap[1].location)
          /\ (gotSnap[1].before # <<>> /\ gotSnap[1].before[1].raw = gotSnap[1].raw)
                 => gotSnap[1].snapshot.ref = gotSnap[1].before[1].snapshot.ref
    /\ \A s \in Strategies : snapshotCache[s] = previous[s]

\* the query snapshot was returned again, the same object, although the hash strategy
\* was called in between and the location had a hash of its own
C23_Witness ==
    /\ gotSnap # <<>> /\ gotSnap[1].strategy = "query"
    /\ gotSnap[1].raw.mark = "?" /\ gotSnap[1].location.hash.mark = "#"
    /\ gotSnap[1].before # <<>>
    /\ gotSnap[1].snapshot.ref = gotSnap[1].before[1].snapshot.ref
    /\ snapshotCache["hash"] # <<>>
    /\ snapshotCache["hash"][1].snapshot.ref > gotSnap[1].snapshot.ref

----------------------------------------------------------------------------
(* Claims about useUrlParam (SpecParamHook) *)

\* setValue was called in a browser and returned
SetValueWrote == lastSet # <<>> /\ window /\ ~threw

\* the keys other than key in the location before or after
OtherKeys(key) == (KeysOf(parseMultiParams(prevUrl)) \cup KeysOf(parseMultiParams(url))) \ {key}

\* C22: setValue(v) of useUrlParam for key k changes only k in the location's
\* parameters: afterwards k is absent if encode(v) is undefined and otherwise maps to
\* exactly [encode(v)], and for every other key the list of values parsed from the new
\* URL equals the list parsed from the URL before the call.
C22_SetValueChangesOnlyKey ==
    SetValueWrote =>
        /\ getAll(url, instances[1].key)
               = (IF lastSet[1].encoded.def THEN <<lastSet[1].encoded.s>> ELSE <<>>)
        /\ \A k \in OtherKeys(instances[1].key) : getAll(url, k) = getAll(prevUrl, k)

\* the same when the URL before the call has '' only as the last value of a key
C22_SetValueChangesOnlyKeyEmptyLast ==
    (SetValueWrote /\ EmptyOnlyLast(parseMultiParams(prevUrl))) =>
        /\ getAll(url, instances[1].key)
               = (IF lastSet[1].encoded.def THEN <<lastSet[1].encoded.s>> ELSE <<>>)
        /\ \A k \in OtherKeys(instances[1].key) : getAll(url, k) = getAll(prevUrl, k)

\* C24: on every render of useUrlParam, the returned value equals
\* param.decode(encoded) for the param passed in that render and the key's current
\* first URL value; the memoized decoded value is reused only when both the encoded
\* string and the param object identity are the same as when it was cached.
C24_RenderDecodesCurrent ==
    rendered # <<>> =>
        /\ rendered[1].value
               = ParamDecode(rendered[1].param.p, FALSE, rendered[1].encoded).ret
        /\ rendered[1].reused =>
               /\ rendered[1].cacheBefore # <<>>
               /\ rendered[1].cacheBefore[1].encoded = rendered[1].encoded
               /\ rendered[1].cacheBefore[1].param.id = rendered[1].param.id

\* a render with another param object (another default) while the key is absent from
\* the URL, after a render that had cached the first param's default: the value is the
\* new default
C24_Witness ==
    /\ rendered # <<>> /\ rendered[1].cacheBefore # <<>>
    /\ ~rendered[1].reused
    /\ rendered[1].cacheBefore[1].encoded = rendered[1].encoded
    /\ ~rendered[1].encoded.def
    /\ rendered[1].cacheBefore[1].param.id = 1 /\ rendered[1].param.id = 3
    /\ rendered[1].value = Dec(FALSE, 150)

----------------------------------------------------------------------------
(* Claims about useUrlState / useMultiUrlState (SpecState) *)

\* the component is a debounced useUrlState whose last setValue has been written to
\* the URL, and it has rendered since
ShownAfterWrite(h) ==
    h.kind = "useUrlState" /\ h.debounceMs > 0 /\ h.set # <<>> /\ h.phase = "shown"

\* C26: in useUrlState with debounce > 0: after setValue(v), once the debounced write
\* has put encode(v) into the URL, the hook returns v itself (the value that was set,
\* not the re-decoded decode(encode(v))), for every interleaving of component
\* re-renders with the pending debounced write.
C26_ReturnsSetValue ==
    \A i \in DOMAIN instances :
        ShownAfterWrite(instances[i]) => instances[i].value[1] = instances[i].set[1].value

\* the same when the component did not render while the write was pending
C26_ReturnsSetValueNoRender ==
    \A i \in DOMAIN instances :
        (ShownAfterWrite(instances[i]) /\ ~instances[i].interleaved)
            => instances[i].value[1] = instances[i].set[1].value

\* no debounced write is pending
Quiescent ==
    \A i \in DOMAIN instances :
        instances[i].debouncedWriteRef = <<>> \/ instances[i].debouncedWriteRef[1].timers = {}

\* the values that the URL should hold under the key of a component, given what its
\* last setValue encoded
SetList(h) ==
    IF h.kind = "useUrlState"
    THEN (IF h.set[1].encoded.def THEN <<h.set[1].encoded.s>> ELSE <<>>)
    ELSE h.set[1].encoded

\* C28: two hook instances bound to different keys never lose each other's update:
\* for every interleaving of their setValue calls and (debounced or immediate) URL
\* writes, the final URL holds the last value set through each hook for its key.
C28_NoLostUpdate ==
    Quiescent =>
        \A i \in DOMAIN instances :
            instances[i].set # <<>> => getAll(url, instances[i].key) = SetList(instances[i])

\* the same for the values whose encoding has '' in the last place only
C28_NoLostUpdateEmptyLast ==
    Quiescent =>
        \A i \in DOMAIN instances :
            (/\ instances[i].set # <<>>
             /\ \A k \in 1..Len(SetList(instances[i])) :
                    SetList(instances[i])[k] = <<>> => k = Len(SetList(instances[i])))
                => getAll(url, instances[i].key) = SetList(instances[i])

\* C27: in useUrlStates / useMultiUrlStates with debounce > 0 and the component
\* staying mounted: every key update passed to setValues is eventually written to the
\* URL unless a later setValues call updates the same key; in particular two setValues
\* calls for different keys within one debounce window both reach the URL.
C27_EveryUpdateWritten ==
    \A k \in {"a", "b"} : \A n \in 1..MaxSets :
        (instances[1].debounceMs > 0 /\ instances[1].latest[k] = n)
            ~> (instances[1].written[k] = n \/ instances[1].latest[k] # n)

\* what holds instead: the updates of a setValues call are eventually written unless
\* a later setValues call is made, whatever its keys
C27_LastCallWritten ==
    \A k \in {"a", "b"} : \A n \in 1..MaxSets :
        (instances[1].debounceMs > 0 /\ instances[1].latest[k] = n /\ instances[1].sets = n)
            ~> (instances[1].written[k] = n \/ instances[1].sets # n)

\* the update of a key was never written, no timer is pending, and the later
\* setValues call, which updated the other key only, has been written
C27_Superseded ==
    \E k \in {"a", "b"} :
        /\ instances[1].debounceMs > 0
        /\ instances[1].latest[k] > instances[1].written[k]
        /\ instances[1].latest[k] < instances[1].sets
        /\ instances[1].debouncedWriteRef[1].timers = {}
        /\ \A other \in {"a", "b"} \ {k} : instances[1].written[other] = instances[1].sets

\* the last update of a key is neither written nor among the arguments of a pending timer
LostUpdate(k) ==
    /\ instances[1].debounceMs > 0
    /\ instances[1].latest[k] > instances[1].written[k]
    /\ \A timer \in instances[1].debouncedWriteRef[1].timers :
          ~(HasUpdate(timer.args, k) /\ UpdateOf(timer.args, k).call = instances[1].latest[k])

\* such an update stays unwritten whatever the component does next, until setValues
\* updates the same key again: the run that ends in C27_Superseded does not end there
\* for want of further setValues calls
C27_LostStaysLost ==
    [][\A k \in {"a", "b"} :
          LostUpdate(k) => (LostUpdate(k)' \/ instances[1].latest[k]' # instances[1].latest[k])]_vars

====
